---- MODULE Spec2Model ----
(***************************************************************************)
(* A model of fixforward: the confidence scorer and delta report of        *)
(* fixforward/verifier.py, the rule-table classifier of                    *)
(* fixforward/classifier.py, the patch extraction of fixforward/copilot.py *)
(* with the part of the run command that follows it (fixforward/cli.py),   *)
(* the test runner of fixforward/detector.py with the three output parsers *)
(* of fixforward/parsers, the rollback of fixforward/state.py, and the run *)
(* command of fixforward/cli.py with verify of fixforward/verifier.py.     *)
(*                                                                         *)
(* Scores are kept in hundredths (0.95 is 95).  An unrounded score is an   *)
(* exact fraction num/den of hundredths together with what is needed to    *)
(* say which way the IEEE double the code holds falls when the exact value *)
(* lies half way between two hundredths.                                   *)
(***************************************************************************)
EXTENDS Integers, Sequences, FiniteSets, TLC

VARIABLES
    pc,          \* position of the modelled call
    original,    \* verifier: the TestResult of the run before the fix
    fixed,       \* verifier: the TestResult of the run after the fix
    confidence,  \* verifier: result of _calculate_confidence, in hundredths
    diff,        \* verifier: result of _summary_diff, a sequence of lines
    failures,    \* classifier: the list of TestFailure handed to classify
    classified,  \* classifier: the list of ClassifiedFailure it returns
    raw_output,  \* copilot: the assistant's response
    project,     \* copilot: the files of the project, in rglob order
    changes,     \* copilot: the list of FileChange built by _parse_response
    patch,       \* copilot: what generate_patch returned or raised
    ecosystem,   \* detector: the ecosystem run_tests is called with
    proc,        \* detector: how the test command ended, and its output
    result,      \* detector: the TestResult of the parser, then of run_tests
    args,        \* cli: the options of the command
    calls,       \* cli, state: the calls made so far, in order
    state_file,  \* state: what ~/.fixforward/state.json holds
    verify_result \* verifier: the VerifyResult of verify

verifierVars == <<original, fixed, confidence, diff>>
classifierVars == <<failures, classified>>
copilotVars == <<raw_output, project, changes, patch>>
detectorVars == <<ecosystem, proc, result>>
sessionVars == <<args, calls, state_file, verify_result>>

vars ==
    <<pc, original, fixed, confidence, diff, failures, classified,
      raw_output, project, changes, patch, ecosystem, proc, result,
      args, calls, state_file, verify_result>>

None == "None"

\* the variables of a component that is not running
VerifierIdle ==
    original = None /\ fixed = None /\ confidence = None /\ diff = None
ClassifierIdle == failures = <<>> /\ classified = <<>>
CopilotIdle ==
    raw_output = None /\ project = None /\ changes = None /\ patch = None
DetectorIdle ==
    /\ ecosystem = None /\ proc = None /\ result = None
    /\ args = None /\ calls = <<>> /\ state_file = None
    /\ verify_result = None

(***************************************************************************)
(* Bounds of the verifier inputs.                                          *)
(***************************************************************************)
MaxFailed == 20
MaxPassed == 1
MaxTotal == 1

Max(a, b) == IF a >= b THEN a ELSE b
Min(a, b) == IF a <= b THEN a ELSE b
Abs(a) == IF a >= 0 THEN a ELSE 0 - a

(***************************************************************************)
(* detector.TestResult, the fields the verifier reads.  The "before"       *)
(* summary's passed flag is never read by the verifier.                    *)
(***************************************************************************)
OriginalResults ==
    [failed_count : 0..MaxFailed, passed_count : 0..MaxPassed,
     total_tests : 0..MaxTotal]

FixedResults ==
    [passed : BOOLEAN, failed_count : 0..MaxFailed,
     passed_count : 0..MaxPassed, total_tests : 0..MaxTotal]

(***************************************************************************)
(* _calculate_confidence, lines 50-64: the base score.  For the "some      *)
(* tests fixed" branch the value is 0.30 + fix_ratio * 0.50 with           *)
(* fix_ratio = (o - f) / o; in hundredths that is (30*o + 50*(o - f)) / o. *)
(* twentieths is fix_ratio in units of 1/20 (rounded down); the score can  *)
(* lie exactly between two hundredths only when fix_ratio is an odd        *)
(* number of twentieths (for failure counts below 100).                    *)
(***************************************************************************)
Exact(n) == [num |-> n, den |-> 1, twentieths |-> 0, bonus |-> FALSE]

BaseScoreInverted(o, f) ==
    IF f.passed THEN Exact(90)
    ELSE IF f.failed_count < o.failed_count
         THEN IF o.failed_count > 0
              THEN [num |-> 30 * o.failed_count + 50 * f.failed_count,
                    den |-> o.failed_count,
                    twentieths |-> (20 * f.failed_count) \div o.failed_count,
                    bonus |-> FALSE]
              ELSE Exact(30)
         ELSE Exact(10)

BaseScoreLowPass(o, f) ==
    IF f.passed THEN Exact(80)
    ELSE IF f.failed_count < o.failed_count
         THEN IF o.failed_count > 0
              THEN [num |-> 30 * o.failed_count
                            + 50 * (o.failed_count - f.failed_count),
                    den |-> o.failed_count,
                    twentieths |->
                        (20 * (o.failed_count - f.failed_count))
                            \div o.failed_count,
                    bonus |-> FALSE]
              ELSE Exact(30)
         ELSE Exact(10)

BaseScore(o, f) ==
    IF f.passed THEN Exact(90)
    ELSE IF f.failed_count < o.failed_count
         THEN IF o.failed_count > 0
              THEN [num |-> 30 * o.failed_count
                            + 50 * (o.failed_count - f.failed_count),
                    den |-> o.failed_count,
                    twentieths |->
                        (20 * (o.failed_count - f.failed_count))
                            \div o.failed_count,
                    bonus |-> FALSE]
              ELSE Exact(30)
         ELSE Exact(10)

(***************************************************************************)
(* Lines 66-70: the penalty for failures beyond the original count, and    *)
(* the clamp at 0.0, both inside the same if.                              *)
(***************************************************************************)
PenaltyNoClamp(s, o, f) ==
    IF f.failed_count > o.failed_count
    THEN [s EXCEPT !.num =
              s.num - 20 * (f.failed_count - o.failed_count) * s.den]
    ELSE s

Penalty(s, o, f) ==
    IF f.failed_count > o.failed_count
    THEN [s EXCEPT !.num =
              Max(0, s.num - 20 * (f.failed_count - o.failed_count) * s.den)]
    ELSE s

(***************************************************************************)
(* Lines 72-74: the bonus when the total test count is maintained.         *)
(***************************************************************************)
BonusAlways(s, o, f) ==
    [s EXCEPT !.num = Min(100 * s.den, s.num + 5 * s.den), !.bonus = TRUE]

Bonus(s, o, f) ==
    IF f.total_tests >= o.total_tests
    THEN [s EXCEPT !.num = Min(100 * s.den, s.num + 5 * s.den),
                   !.bonus = TRUE]
    ELSE s

(***************************************************************************)
(* Line 76: round(score, 2).  Away from a tie the double is within 1e-15   *)
(* of the exact value and rounds as the exact value does.  At a tie the    *)
(* double computed by lines 58-59 (and 74) lies just above or just below   *)
(* the half-way point; TieRoundsUp lists, by fix_ratio in twentieths, the  *)
(* cases in which it lies above (IEEE-754 binary64, round-to-nearest).     *)
(***************************************************************************)
TieRoundsUp(s) ==
    IF s.bonus THEN s.twentieths \in {1, 7, 9, 13, 15, 17}
    ELSE s.twentieths \in {1, 3, 9, 15}

Round2HalfDown(s) == s.num \div s.den

Round2(s) ==
    LET q == s.num \div s.den
        r == s.num - q * s.den
    IN  IF 2 * r > s.den THEN q + 1
        ELSE IF 2 * r < s.den THEN q
        ELSE IF TieRoundsUp(s) THEN q + 1 ELSE q

(***************************************************************************)
(* _calculate_confidence, lines 48-76.                                     *)
(***************************************************************************)
_calculate_confidence(o, f) ==
    Round2(Bonus(Penalty(BaseScore(o, f), o, f), o, f))

(***************************************************************************)
(* _summary_diff, lines 79-93.  A line is the sequence of the pieces the   *)
(* f-string joins; the result is the sequence of lines that "\n".join      *)
(* joins.                                                                  *)
(***************************************************************************)
CountLine(label, r) ==
    <<label, r.failed_count, " failed / ", r.passed_count, " passed / ",
      r.total_tests, " total">>

DeltaLineSwapped(o, f) ==
    LET delta_failed == o.failed_count - f.failed_count
    IN  IF delta_failed > 0
        THEN <<"New failures: ", Abs(delta_failed), " test(s)">>
        ELSE IF delta_failed < 0
             THEN <<"Fixed:  ", delta_failed, " test(s)">>
             ELSE <<"No change in failure count.">>

DeltaLine(o, f) ==
    LET delta_failed == o.failed_count - f.failed_count
    IN  IF delta_failed > 0
        THEN <<"Fixed:  ", delta_failed, " test(s)">>
        ELSE IF delta_failed < 0
             THEN <<"New failures: ", Abs(delta_failed), " test(s)">>
             ELSE <<"No change in failure count.">>

_summary_diff(o, f) ==
    <<CountLine("Before: ", o), CountLine("After:  ", f), DeltaLine(o, f)>>

(***************************************************************************)
(* The verifier as a state machine: the two pure functions are applied to  *)
(* a pair of summaries in the order verify() calls them (lines 32, 35).    *)
(***************************************************************************)
InitVerifier ==
    /\ pc = "scoring"
    /\ original \in OriginalResults
    /\ fixed \in FixedResults
    /\ confidence = None
    /\ diff = None
    /\ failures = <<>>
    /\ classified = <<>>
    /\ CopilotIdle
    /\ DetectorIdle

CalculateConfidence ==
    /\ pc = "scoring"
    /\ confidence' = _calculate_confidence(original, fixed)
    /\ pc' = "diffing"
    /\ UNCHANGED <<original, fixed, diff, failures, classified>>
    /\ UNCHANGED <<copilotVars, detectorVars, sessionVars>>

SummaryDiff ==
    /\ pc = "diffing"
    /\ diff' = _summary_diff(original, fixed)
    /\ pc' = "verified"
    /\ UNCHANGED <<original, fixed, confidence, failures, classified>>
    /\ UNCHANGED <<copilotVars, detectorVars, sessionVars>>

NextVerifier == CalculateConfidence \/ SummaryDiff

SpecVerifier == InitVerifier /\ [][NextVerifier]_vars

(***************************************************************************)
(* Text.  A string is modelled as the sequence of its lexical tokens: a    *)
(* maximal run of word characters [A-Za-z0-9_] is one token, every other   *)
(* character is a token of its own.  The patterns of RULES are lexed the   *)
(* same way, so on the texts of this model a pattern matches the tokens    *)
(* exactly when the regular expression matches the characters.  A Piece is *)
(* a token or the first `keep` characters of one (keep = -1: all of it);   *)
(* summaries are sequences of pieces.                                      *)
(***************************************************************************)
\* the backtick character (a TLA+ string cannot hold one)
BT == "<backtick>"

FSyntax ==
    <<"SyntaxError", ":", " ", "invalid", " ", "syntax">>

FFound ==
    <<"expected", " ", BT, ";", BT, ",", " ", "found", " ", BT, "}", BT>>

FModFoo ==
    <<"ModuleNotFoundError", ":", " ", "No", " ", "module", " ", "named", " ", "'", "foo", "'">>

FModBar ==
    <<"ModuleNotFoundError", ":", " ", "No", " ", "module", " ", "named", " ", "'", "bar", "'">>

FQuoted ==
    <<"'", "ModuleNotFoundError", ":", " ", "No", " ", "module", " ", "named", " ", "'", "foo", "'", "'">>

FImport ==
    <<"ImportError", ":", " ", "cannot", " ", "import", " ", "name", " ", "'", "x", "'">>

FPython ==
    <<"requires", " ", "Python", " ", "3", ".", "9">>

FAttr ==
    <<"AttributeError", ":", " ", "'", "Foo", "'", " ", "object", " ", "has", " ", "no", " ", "attribute", " ", "'", "bar", "'">>

FLint ==
    <<"flake8", " ", "E501", " ", "line", " ", "too", " ", "long">>

FTimeout ==
    <<"Test", " ", "execution", " ", "timed", " ", "out", " ", "after", " ", "120", " ", "seconds">>

FAssertErr ==
    <<"AssertionError", ":", " ", "assert", " ", "1", " ", "=", "=", " ", "2">>

FAssert33 ==
    <<"assert", " ", "3", " ", "=", "=", " ", "3">>

FExpected ==
    <<"Expected", " ", "1", " ", "to", " ", "equal", " ", "2">>

FWrapped ==
    <<"AssertionError", ":", " ", "ModuleNotFoundError", ":", " ", "No", " ", "module", " ", "named", " ", "'", "foo", "'">>

FPlain ==
    <<"something", " ", "went", " ", "wrong", " ", "while", " ", "running", " ", "the", " ", "suite">>

Fragments ==
    {FSyntax, FFound, FModFoo, FModBar, FQuoted, FImport, FPython, FAttr,
     FLint, FTimeout, FAssertErr, FAssert33, FExpected, FWrapped, FPlain}

Spaces == {" ", "\n"}

Puncts == {"!", "'", "(", ")", ",", ".", ":", ";", "=", "[", "]", BT, "}"}

Digits == {"0", "1", "2", "3", "4", "5", "6", "7", "8", "9", "120"}

\* str.lower() of the tokens that have upper-case letters (re.IGNORECASE)
Lower(tok) ==
    CASE tok = "AssertionError" -> "assertionerror"
      [] tok = "AttributeError" -> "attributeerror"
      [] tok = "Cannot" -> "cannot"
      [] tok = "Could" -> "could"
      [] tok = "E501" -> "e501"
      [] tok = "ECONNRESET" -> "econnreset"
      [] tok = "ENOENT" -> "enoent"
      [] tok = "Expected" -> "expected"
      [] tok = "Foo" -> "foo"
      [] tok = "ImportError" -> "importerror"
      [] tok = "IndentationError" -> "indentationerror"
      [] tok = "ModuleNotFoundError" -> "modulenotfounderror"
      [] tok = "No" -> "no"
      [] tok = "Python" -> "python"
      [] tok = "Resource" -> "resource"
      [] tok = "SyntaxError" -> "syntaxerror"
      [] tok = "Test" -> "test"
      [] tok = "TypeError" -> "typeerror"
      [] tok = "Unexpected" -> "unexpected"
      [] tok = "toBe" -> "tobe"
      [] tok = "toEqual" -> "toequal"
      [] OTHER -> tok

\* len() of a token
CharLen(tok) ==
    CASE tok \in {"No", "no", "to"} -> 2
      [] tok \in {"120", "Foo", "bar", "foo", "has", "out", "the", "too"} -> 3
      [] tok \in {"E501", "Test", "line", "long", "name", "went"} -> 4
      [] tok \in {"after", "equal", "found", "named", "suite", "timed",
                 "while", "wrong"} -> 5
      [] tok \in {"Python", "assert", "cannot", "flake8", "import", "module",
                 "object", "syntax"} -> 6
      [] tok \in {"invalid", "running", "seconds"} -> 7
      [] tok \in {"Expected", "expected", "requires"} -> 8
      [] tok \in {"attribute", "execution", "something"} -> 9
      [] tok \in {"ImportError", "SyntaxError"} -> 11
      [] tok \in {"AssertionError", "AttributeError"} -> 14
      [] tok \in {"ModuleNotFoundError"} -> 19
      [] OTHER -> 1

Piece(s, keep) ==
    [s |-> s, keep |-> IF keep < 0 \/ keep >= CharLen(s) THEN -1 ELSE keep]

Whole(s) == [s |-> s, keep |-> -1]

Pieces(toks) == [i \in 1..Len(toks) |-> Whole(toks[i])]

\* " ".join / "\n".join of token sequences
RECURSIVE Join(_, _)
Join(parts, sep) ==
    IF parts = <<>> THEN <<>>
    ELSE IF Len(parts) = 1 THEN parts[1]
    ELSE parts[1] \o <<sep>> \o Join(Tail(parts), sep)

(***************************************************************************)
(* Regular expressions (re.search with re.IGNORECASE, classifier.py line   *)
(* 113).  A pattern is a sequence of nodes, matched left to right with     *)
(* Python's backtracking order: a greedy repetition takes the longest run  *)
(* after which the rest of the pattern matches, a lazy one the shortest,   *)
(* an alternation the first branch after which the rest matches.  IGNORECASE: the literals of a pattern are kept lower-cased and  *)
(* are matched against the lower-cased text (Fold).                        *)
(***************************************************************************)
Lit(s) == [k |-> "lit", s |-> Lower(s)]
Cls(c) == [k |-> "cls", c |-> c]
Rep(c, min, greedy) == [k |-> "rep", c |-> c, min |-> min, greedy |-> greedy]
Opt(s) == [k |-> "opt", s |-> Lower(s)]
Alt(branches) == [k |-> "alt", branches |-> branches]
Open(n) == [k |-> "open", n |-> n]
Close(n) == [k |-> "close", n |-> n]
FirstChar(n, c) == [k |-> "first", n |-> n, c |-> c]

MinOf(S) == CHOOSE x \in S : \A y \in S : x <= y
MaxOf(S) == CHOOSE x \in S : \A y \in S : x >= y

Lits(toks) == [i \in 1..Len(toks) |-> Lit(toks[i])]
Grp(n, nodes) == <<Open(n)>> \o nodes \o <<Close(n)>>

Fold(text) == [i \in 1..Len(text) |-> Lower(text[i])]

\* character classes: . (anything but a newline), \s, \S, \w, \d, [\d.]
InClass(tok, c) ==
    CASE c = "any" -> tok # "\n"
      [] c = "space" -> tok \in Spaces
      [] c = "nonspace" -> tok \notin Spaces
      [] c = "word" -> tok \notin Spaces \cup Puncts
      [] c = "digit" -> tok \in Digits
      [] c = "digitdot" -> tok \in Digits \cup {"."}

\* the number of tokens from position i on that belong to class c
RunLength(t, i, c) ==
    MinOf({j \in i..(Len(t) + 1) : j > Len(t) \/ ~InClass(t[j], c)}) - i

NoGroup == [from |-> 0, to |-> 0, keep |-> -1]
NoGroups == <<NoGroup, NoGroup>>
NoMatch == [ok |-> FALSE, caps |-> NoGroups]

RECURSIVE Match(_, _, _, _), MatchAlt(_, _, _, _, _)
Match(t, nodes, i, caps) ==
    IF nodes = <<>> THEN [ok |-> TRUE, caps |-> caps]
    ELSE
      LET nd == Head(nodes)
          rest == Tail(nodes)
      IN
      CASE nd.k = "lit" ->
             IF i <= Len(t) /\ t[i] = nd.s
             THEN Match(t, rest, i + 1, caps)
             ELSE NoMatch
        [] nd.k = "cls" ->
             IF i <= Len(t) /\ InClass(t[i], nd.c)
             THEN Match(t, rest, i + 1, caps)
             ELSE NoMatch
        [] nd.k = "opt" ->
             LET with == IF i <= Len(t) /\ t[i] = nd.s
                         THEN Match(t, rest, i + 1, caps)
                         ELSE NoMatch
             IN  IF with.ok THEN with ELSE Match(t, rest, i, caps)
        [] nd.k = "rep" ->
             LET run == RunLength(t, i, nd.c)
                 tries == {<<n, Match(t, rest, i + n, caps)>> :
                              n \in nd.min..run}
                 hits == {x \in tries : x[2].ok}
             IN  IF hits = {} THEN NoMatch
                 ELSE LET lens == {x[1] : x \in hits}
                          len == IF nd.greedy THEN MaxOf(lens) ELSE MinOf(lens)
                      IN  (CHOOSE x \in hits : x[1] = len)[2]
        [] nd.k = "alt" -> MatchAlt(t, nd.branches, rest, i, caps)
        [] nd.k = "open" ->
             Match(t, rest, i, [caps EXCEPT ![nd.n].from = i])
        [] nd.k = "close" ->
             Match(t, rest, i, [caps EXCEPT ![nd.n].to = i])
        [] nd.k = "first" ->
             IF i <= Len(t) /\ InClass(t[i], nd.c)
             THEN Match(t, rest, i + 1,
                      [caps EXCEPT ![nd.n] =
                          [from |-> i, to |-> i + 1, keep |-> 1]])
             ELSE NoMatch

MatchAlt(t, branches, rest, i, caps) ==
    IF branches = <<>> THEN NoMatch
    ELSE LET m == Match(t, Head(branches) \o rest, i, caps)
         IN  IF m.ok THEN m ELSE MatchAlt(t, Tail(branches), rest, i, caps)

\* re.search on a lower-cased text: the match at the leftmost position that
\* has one
Search(t, nodes) ==
    LET starts == {i \in 1..(Len(t) + 1) :
                      nodes[1].k = "lit" => (i <= Len(t) /\ t[i] = nodes[1].s)}
        hits == {x \in {<<i, Match(t, nodes, i, NoGroups)>> : i \in starts} :
                    x[2].ok}
    IN  IF hits = {} THEN NoMatch
        ELSE (CHOOSE x \in hits : x[1] = MinOf({y[1] : y \in hits}))[2]

\* the number of capturing groups of a pattern
NGroups(nodes) ==
    Cardinality({i \in 1..Len(nodes) : nodes[i].k \in {"open", "first"}})

\* m.groups(): the text of each group, as pieces
Groups(t, nodes, m) ==
    [g \in 1..NGroups(nodes) |->
        IF m.caps[g].keep = 1
        THEN <<Piece(t[m.caps[g].from], 1)>>
        ELSE Pieces(SubSeq(t, m.caps[g].from, m.caps[g].to - 1))]

(***************************************************************************)
(* Summary templates and str.format (lines 115-118).  {n} refers to group  *)
(* n; a reference beyond the groups of the pattern raises IndexError,      *)
(* which the code turns into the template text itself.                     *)
(***************************************************************************)
Text(s) == [k |-> "text", s |-> s]
Ref(n) == [k |-> "ref", n |-> n, s |-> <<"{0}", "{1}">>[n + 1]]

RECURSIVE Flatten(_)
Flatten(seqs) ==
    IF seqs = <<>> THEN <<>> ELSE Head(seqs) \o Flatten(Tail(seqs))

\* a format that leaves the placeholders in place
FormatVerbatim(template, groups) ==
    [i \in 1..Len(template) |-> Whole(template[i].s)]

Format(template, groups) ==
    IF \E i \in 1..Len(template) :
           template[i].k = "ref" /\ template[i].n >= Len(groups)
    THEN [i \in 1..Len(template) |-> Whole(template[i].s)]
    ELSE Flatten([i \in 1..Len(template) |->
                     IF template[i].k = "ref"
                     THEN groups[template[i].n + 1]
                     ELSE <<Whole(template[i].s)>>])

(***************************************************************************)
(* RULES (lines 32-96): per category the base confidence and the ordered   *)
(* (pattern, summary template) pairs.  Each pattern is given with the      *)
(* regular expression it is lexed from.                                    *)
(***************************************************************************)
Rule(re, template) == [re |-> re, template |-> template]
SyntaxRules ==
    [category |-> "syntax_error", confidence |-> 95, patterns |-> <<
        \* SyntaxError:\s*(.+)
        Rule(Lits(<<"SyntaxError", ":">>)
             \o <<Rep("space", 0, TRUE)>>
             \o Grp(1, <<Rep("any", 1, TRUE)>>),
             <<Text("Syntax error: "), Ref(0)>>),
        \* IndentationError:\s*(.+)
        Rule(Lits(<<"IndentationError", ":">>)
             \o <<Rep("space", 0, TRUE)>>
             \o Grp(1, <<Rep("any", 1, TRUE)>>),
             <<Text("Indentation error: "), Ref(0)>>),
        \* Unexpected token\s*(.+)
        Rule(Lits(<<"Unexpected", " ", "token">>)
             \o <<Rep("space", 0, TRUE)>>
             \o Grp(1, <<Rep("any", 1, TRUE)>>),
             <<Text("Unexpected token: "), Ref(0)>>),
        \* parse error
        Rule(Lits(<<"parse", " ", "error">>),
             <<Text("Parse error")>>),
        \* expected\s+.+,\s+found\s+(.+)
        Rule(Lits(<<"expected">>)
             \o <<Rep("space", 1, TRUE)>>
             \o <<Rep("any", 1, TRUE)>>
             \o Lits(<<",">>)
             \o <<Rep("space", 1, TRUE)>>
             \o Lits(<<"found">>)
             \o <<Rep("space", 1, TRUE)>>
             \o Grp(1, <<Rep("any", 1, TRUE)>>),
             <<Text("Expected/found mismatch: "), Ref(0)>>)
    >>]

DependencyRules ==
    [category |-> "dependency", confidence |-> 90, patterns |-> <<
        \* ModuleNotFoundError:\s*No module named '(\S+)'
        Rule(Lits(<<"ModuleNotFoundError", ":">>)
             \o <<Rep("space", 0, TRUE)>>
             \o Lits(<<"No", " ", "module", " ", "named", " ", "'">>)
             \o Grp(1, <<Rep("nonspace", 1, TRUE)>>)
             \o Lits(<<"'">>),
             <<Text("Missing module: "), Ref(0)>>),
        \* ImportError:\s*(.+)
        Rule(Lits(<<"ImportError", ":">>)
             \o <<Rep("space", 0, TRUE)>>
             \o Grp(1, <<Rep("any", 1, TRUE)>>),
             <<Text("Import error: "), Ref(0)>>),
        \* Cannot find module '(\S+)'
        Rule(Lits(<<"Cannot", " ", "find", " ", "module", " ", "'">>)
             \o Grp(1, <<Rep("nonspace", 1, TRUE)>>)
             \o Lits(<<"'">>),
             <<Text("Missing Node module: "), Ref(0)>>),
        \* No module named '?(\S+?)'?
        Rule(Lits(<<"No", " ", "module", " ", "named", " ">>)
             \o <<Opt("'")>>
             \o <<FirstChar(1, "nonspace")>>,
             <<Text("Missing module: "), Ref(0)>>),
        \* unresolved import `(\S+)`
        Rule(Lits(<<"unresolved", " ", "import", " ", BT>>)
             \o Grp(1, <<Rep("nonspace", 1, TRUE)>>)
             \o Lits(<<BT>>),
             <<Text("Unresolved import: "), Ref(0)>>),
        \* package `(\S+)`.+not found
        Rule(Lits(<<"package", " ", BT>>)
             \o Grp(1, <<Rep("nonspace", 1, TRUE)>>)
             \o Lits(<<BT>>)
             \o <<Rep("any", 1, TRUE)>>
             \o Lits(<<"not", " ", "found">>),
             <<Text("Missing Rust crate: "), Ref(0)>>),
        \* Could not find a version that satisfies
        Rule(Lits(<<"Could", " ", "not", " ", "find", " ", "a", " ", "version", " ", "that", " ", "satisfies">>),
             <<Text("Dependency version conflict")>>)
    >>]

EnvRules ==
    [category |-> "env_mismatch", confidence |-> 80, patterns |-> <<
        \* version mismatch
        Rule(Lits(<<"version", " ", "mismatch">>),
             <<Text("Version mismatch")>>),
        \* requires Python\s*([\d.]+)
        Rule(Lits(<<"requires", " ", "Python">>)
             \o <<Rep("space", 0, TRUE)>>
             \o Grp(1, <<Rep("digitdot", 1, TRUE)>>),
             <<Text("Requires Python "), Ref(0)>>),
        \* engine .+ is incompatible
        Rule(Lits(<<"engine", " ">>)
             \o <<Rep("any", 1, TRUE)>>
             \o Lits(<<" ", "is", " ", "incompatible">>),
             <<Text("Engine incompatible")>>),
        \* ENOENT.+?'(\S+)'
        Rule(Lits(<<"ENOENT">>)
             \o <<Rep("any", 1, FALSE)>>
             \o Lits(<<"'">>)
             \o Grp(1, <<Rep("nonspace", 1, TRUE)>>)
             \o Lits(<<"'">>),
             <<Text("Command not found: "), Ref(0)>>),
        \* command not found:\s*(\S+)
        Rule(Lits(<<"command", " ", "not", " ", "found", ":">>)
             \o <<Rep("space", 0, TRUE)>>
             \o Grp(1, <<Rep("nonspace", 1, TRUE)>>),
             <<Text("Command not found: "), Ref(0)>>),
        \* minimum supported rust version
        Rule(Lits(<<"minimum", " ", "supported", " ", "rust", " ", "version">>),
             <<Text("Rust version too old")>>)
    >>]

ApiRules ==
    [category |-> "api_change", confidence |-> 85, patterns |-> <<
        \* AttributeError:\s*'?(\w+)'?\s+object has no attribute '(\w+)'
        Rule(Lits(<<"AttributeError", ":">>)
             \o <<Rep("space", 0, TRUE)>>
             \o <<Opt("'")>>
             \o Grp(1, <<Rep("word", 1, TRUE)>>)
             \o <<Opt("'")>>
             \o <<Rep("space", 1, TRUE)>>
             \o Lits(<<"object", " ", "has", " ", "no", " ", "attribute", " ", "'">>)
             \o Grp(2, <<Rep("word", 1, TRUE)>>)
             \o Lits(<<"'">>),
             <<Ref(0), Text(" has no attribute '"), Ref(1), Text("'")>>),
        \* TypeError:\s*(\w+)\(\) (?:got an unexpected|missing \d+ required|takes \d+)
        Rule(Lits(<<"TypeError", ":">>)
             \o <<Rep("space", 0, TRUE)>>
             \o Grp(1, <<Rep("word", 1, TRUE)>>)
             \o Lits(<<"(", ")", " ">>)
             \o <<Alt(<<Lits(<<"got", " ", "an", " ", "unexpected">>), Lits(<<"missing", " ">>)
             \o <<Rep("digit", 1, TRUE)>>
             \o Lits(<<" ", "required">>), Lits(<<"takes", " ">>)
             \o <<Rep("digit", 1, TRUE)>>>>)>>,
             <<Text("Wrong arguments for "), Ref(0), Text("()")>>),
        \* missing \d+ required (?:positional )?argument
        Rule(Lits(<<"missing", " ">>)
             \o <<Rep("digit", 1, TRUE)>>
             \o Lits(<<" ", "required", " ">>)
             \o <<Alt(<<Lits(<<"positional", " ", "argument">>), Lits(<<"argument">>)>>)>>,
             <<Text("Missing required argument")>>),
        \* has no member named `(\w+)`
        Rule(Lits(<<"has", " ", "no", " ", "member", " ", "named", " ", BT>>)
             \o Grp(1, <<Rep("word", 1, TRUE)>>)
             \o Lits(<<BT>>),
             <<Text("No member: "), Ref(0)>>),
        \* no method named `(\w+)`
        Rule(Lits(<<"no", " ", "method", " ", "named", " ", BT>>)
             \o Grp(1, <<Rep("word", 1, TRUE)>>)
             \o Lits(<<BT>>),
             <<Text("No method: "), Ref(0)>>),
        \* is not a function
        Rule(Lits(<<"is", " ", "not", " ", "a", " ", "function">>),
             <<Text("Not a function")>>),
        \* is not defined
        Rule(Lits(<<"is", " ", "not", " ", "defined">>),
             <<Text("Not defined")>>)
    >>]

LintRules ==
    [category |-> "lint", confidence |-> 75, patterns |-> <<
        \* flake8
        Rule(Lits(<<"flake8">>),
             <<Text("Flake8 lint error")>>),
        \* eslint
        Rule(Lits(<<"eslint">>),
             <<Text("ESLint error")>>),
        \* clippy
        Rule(Lits(<<"clippy">>),
             <<Text("Clippy warning")>>),
        \* warning\[(\w+)\]
        Rule(Lits(<<"warning", "[">>)
             \o Grp(1, <<Rep("word", 1, TRUE)>>)
             \o Lits(<<"]">>),
             <<Text("Compiler warning: "), Ref(0)>>),
        \* formatting.+differ
        Rule(Lits(<<"formatting">>)
             \o <<Rep("any", 1, TRUE)>>
             \o Lits(<<"differ">>),
             <<Text("Formatting difference")>>)
    >>]

FlakyRules ==
    [category |-> "flaky_test", confidence |-> 60, patterns |-> <<
        \* timeout|timed?\s*out
        Rule(<<Alt(<<Lits(<<"timeout">>), Lits(<<"timedout">>), <<Alt(<<Lits(<<"timed">>), Lits(<<"time">>)>>)>>
             \o <<Rep("space", 0, TRUE)>>
             \o Lits(<<"out">>)>>)>>,
             <<Text("Test timed out")>>),
        \* flaky
        Rule(Lits(<<"flaky">>),
             <<Text("Flaky test")>>),
        \* intermittent
        Rule(Lits(<<"intermittent">>),
             <<Text("Intermittent failure")>>),
        \* connection refused
        Rule(Lits(<<"connection", " ", "refused">>),
             <<Text("Connection refused")>>),
        \* ECONNRESET
        Rule(Lits(<<"ECONNRESET">>),
             <<Text("Connection reset")>>),
        \* Resource temporarily unavailable
        Rule(Lits(<<"Resource", " ", "temporarily", " ", "unavailable">>),
             <<Text("Resource unavailable")>>)
    >>]

AssertionRules ==
    [category |-> "assertion", confidence |-> 85, patterns |-> <<
        \* AssertionError:\s*assert\s+(.+)
        Rule(Lits(<<"AssertionError", ":">>)
             \o <<Rep("space", 0, TRUE)>>
             \o Lits(<<"assert">>)
             \o <<Rep("space", 1, TRUE)>>
             \o Grp(1, <<Rep("any", 1, TRUE)>>),
             <<Text("Assertion failed: "), Ref(0)>>),
        \* AssertionError:\s*(.+)
        Rule(Lits(<<"AssertionError", ":">>)
             \o <<Rep("space", 0, TRUE)>>
             \o Grp(1, <<Rep("any", 1, TRUE)>>),
             <<Text("Assertion: "), Ref(0)>>),
        \* assert\s+[\d.]+\s*==\s*[\d.]+
        Rule(Lits(<<"assert">>)
             \o <<Rep("space", 1, TRUE)>>
             \o <<Rep("digitdot", 1, TRUE)>>
             \o <<Rep("space", 0, TRUE)>>
             \o Lits(<<"=", "=">>)
             \o <<Rep("space", 0, TRUE)>>
             \o <<Rep("digitdot", 1, TRUE)>>,
             <<Text("Assertion: value mismatch")>>),
        \* assert\s+(.+?)\s*==\s*(.+)
        Rule(Lits(<<"assert">>)
             \o <<Rep("space", 1, TRUE)>>
             \o Grp(1, <<Rep("any", 1, FALSE)>>)
             \o <<Rep("space", 0, TRUE)>>
             \o Lits(<<"=", "=">>)
             \o <<Rep("space", 0, TRUE)>>
             \o Grp(2, <<Rep("any", 1, TRUE)>>),
             <<Text("Assertion: "), Ref(0), Text(" != "), Ref(1)>>),
        \* assert_eq!.+left:\s*`(.+?)`,\s*right:\s*`(.+?)`
        Rule(Lits(<<"assert_eq", "!">>)
             \o <<Rep("any", 1, TRUE)>>
             \o Lits(<<"left", ":">>)
             \o <<Rep("space", 0, TRUE)>>
             \o Lits(<<BT>>)
             \o Grp(1, <<Rep("any", 1, FALSE)>>)
             \o Lits(<<BT, ",">>)
             \o <<Rep("space", 0, TRUE)>>
             \o Lits(<<"right", ":">>)
             \o <<Rep("space", 0, TRUE)>>
             \o Lits(<<BT>>)
             \o Grp(2, <<Rep("any", 1, FALSE)>>)
             \o Lits(<<BT>>),
             <<Text("assert_eq! left="), Ref(0), Text(", right="), Ref(1)>>),
        \* expect\(.+\)\.to(?:Equal|Be)\((.+?)\)
        Rule(Lits(<<"expect", "(">>)
             \o <<Rep("any", 1, TRUE)>>
             \o Lits(<<")", ".">>)
             \o <<Alt(<<Lits(<<"toEqual">>), Lits(<<"toBe">>)>>)>>
             \o Lits(<<"(">>)
             \o Grp(1, <<Rep("any", 1, FALSE)>>)
             \o Lits(<<")">>),
             <<Text("Expected "), Ref(0)>>),
        \* Expected\s+(.+?)\s+to (?:equal|be)\s+(.+)
        Rule(Lits(<<"Expected">>)
             \o <<Rep("space", 1, TRUE)>>
             \o Grp(1, <<Rep("any", 1, FALSE)>>)
             \o <<Rep("space", 1, TRUE)>>
             \o Lits(<<"to", " ">>)
             \o <<Alt(<<Lits(<<"equal">>), Lits(<<"be">>)>>)>>
             \o <<Rep("space", 1, TRUE)>>
             \o Grp(2, <<Rep("any", 1, TRUE)>>),
             <<Text("Expected "), Ref(1), Text(", got "), Ref(0)>>),
        \* expected:\s*(.+?)\s+but was:\s*(.+)
        Rule(Lits(<<"expected", ":">>)
             \o <<Rep("space", 0, TRUE)>>
             \o Grp(1, <<Rep("any", 1, FALSE)>>)
             \o <<Rep("space", 1, TRUE)>>
             \o Lits(<<"but", " ", "was", ":">>)
             \o <<Rep("space", 0, TRUE)>>
             \o Grp(2, <<Rep("any", 1, TRUE)>>),
             <<Text("Expected "), Ref(0), Text(", got "), Ref(1)>>),
        \* !=\s
        Rule(Lits(<<"!", "=">>)
             \o <<Cls("space")>>,
             <<Text("Value mismatch")>>),
        \* AssertionError
        Rule(Lits(<<"AssertionError">>),
             <<Text("Assertion error")>>)
    >>]

\* the table with the assertion rules moved to the front
RulesAssertionFirst ==
    <<AssertionRules, SyntaxRules, DependencyRules, EnvRules, ApiRules,
      LintRules, FlakyRules>>
RULES ==
    <<SyntaxRules, DependencyRules, EnvRules, ApiRules, LintRules,
      FlakyRules, AssertionRules>>

(***************************************************************************)
(* detector.TestFailure, the fields the classifier reads, and the name     *)
(* that tells the failures of one list apart.                              *)
(***************************************************************************)
TestFailure(name, message, output) ==
    [test_name |-> name, error_message |-> message, full_output |-> output]

\* line 109: f"{failure.error_message}\n{failure.full_output}"
FailureText(failure) ==
    failure.error_message \o <<"\n">> \o failure.full_output

\* line 127: error_message[:80], or "Unknown error" for an empty message
PreviewLen == 80

RECURSIVE Prefix(_, _)
Prefix(toks, n) ==
    IF toks = <<>> \/ n <= 0 THEN <<>>
    ELSE IF CharLen(Head(toks)) <= n
         THEN <<Whole(Head(toks))>>
                  \o Prefix(Tail(toks), n - CharLen(Head(toks)))
         ELSE <<Piece(Head(toks), n)>>

\* a preview that is never cut
ErrorPreviewUncut(failure) ==
    IF failure.error_message # <<>>
    THEN Pieces(failure.error_message)
    ELSE <<Whole("Unknown error")>>

ErrorPreview(failure) ==
    IF failure.error_message # <<>>
    THEN Prefix(failure.error_message, PreviewLen)
    ELSE <<Whole("Unknown error")>>

ClassifiedFailure(failure, category, conf, summary) ==
    [failure |-> failure, category |-> category, confidence |-> conf,
     summary |-> summary]

(***************************************************************************)
(* _classify_one (lines 107-133): the two nested loops over RULES, left    *)
(* at the first pattern that matches.  FirstPattern is the inner loop from *)
(* pattern p on, FirstMatch the outer loop from category c on; folded is   *)
(* the text lower-cased.                                                   *)
(***************************************************************************)
\* an inner loop that is not left at the first match: the last matching
\* pattern of the category decides
RECURSIVE LastPattern(_, _, _, _)
LastPattern(patterns, text, folded, p) ==
    IF p > Len(patterns) THEN [found |-> FALSE]
    ELSE LET later == LastPattern(patterns, text, folded, p + 1)
             m == Search(folded, patterns[p].re)
         IN  IF later.found THEN later
             ELSE IF m.ok
                  THEN [found |-> TRUE,
                        summary |-> Format(patterns[p].template,
                                           Groups(text, patterns[p].re, m))]
                  ELSE [found |-> FALSE]

RECURSIVE FirstPattern(_, _, _, _)
FirstPattern(patterns, text, folded, p) ==
    IF p > Len(patterns) THEN [found |-> FALSE]
    ELSE LET m == Search(folded, patterns[p].re)
         IN  IF m.ok
             THEN [found |-> TRUE,
                   summary |-> Format(patterns[p].template,
                                      Groups(text, patterns[p].re, m))]
             ELSE FirstPattern(patterns, text, folded, p + 1)

RECURSIVE FirstMatch(_, _, _, _)
FirstMatch(rules, text, folded, c) ==
    IF c > Len(rules) THEN [found |-> FALSE]
    ELSE LET hit == FirstPattern(rules[c].patterns, text, folded, 1)
         IN  IF hit.found
             THEN [found |-> TRUE, c |-> c, summary |-> hit.summary]
             ELSE FirstMatch(rules, text, folded, c + 1)

_classify_one(failure) ==
    LET text == FailureText(failure)
        hit == FirstMatch(RULES, text, Fold(text), 1)
    IN  IF hit.found
        THEN ClassifiedFailure(failure, RULES[hit.c].category,
                               RULES[hit.c].confidence, hit.summary)
        ELSE ClassifiedFailure(failure, "unknown", 30, ErrorPreview(failure))

\* a classify that returns the classifications in reverse order
classifyReversed(fs) ==
    [i \in 1..Len(fs) |-> _classify_one(fs[Len(fs) + 1 - i])]

\* lines 99-104
classify(fs) == [i \in 1..Len(fs) |-> _classify_one(fs[i])]

(***************************************************************************)
(* The classifier as a state machine.  The failures handed to classify are *)
(* either one failure whose message (fragments joined by spaces) and       *)
(* output (fragments joined by newlines) hold up to MaxFrags fragments     *)
(* together, or a list of up to MaxFailures failures of at most one        *)
(* message fragment each.                                                  *)
(***************************************************************************)
MaxFrags == 2
MaxFailures == 2

SeqsUpTo(S, n) == UNION {[1..k -> S] : k \in 0..n}

RichFailures ==
    {TestFailure("t1", Join(SubSeq(fs, 1, j), " "),
                 Join(SubSeq(fs, j + 1, Len(fs)), "\n")) :
        <<fs, j>> \in {x \in SeqsUpTo(Fragments, MaxFrags) \X (0..MaxFrags) :
                          x[2] <= Len(x[1])}}

TestNames == <<"t1", "t2", "t3", "t4">>

SimpleLists ==
    {[i \in 1..Len(ms) |-> TestFailure(TestNames[i], ms[i], <<>>)] :
        ms \in SeqsUpTo(Fragments \cup {<<>>}, MaxFailures)}

InitClassifier ==
    /\ pc = "classifying"
    /\ failures \in SimpleLists \cup {<<f>> : f \in RichFailures}
    /\ classified = <<>>
    /\ original = None
    /\ fixed = None
    /\ confidence = None
    /\ diff = None
    /\ CopilotIdle
    /\ DetectorIdle

Classify ==
    /\ pc = "classifying"
    /\ classified' = classify(failures)
    /\ pc' = "classified"
    /\ UNCHANGED <<failures, original, fixed, confidence, diff>>
    /\ UNCHANGED <<copilotVars, detectorVars, sessionVars>>

NextClassifier == Classify

SpecClassifier == InitClassifier /\ [][NextClassifier]_vars

(***************************************************************************)
(* Patch extraction (copilot.py).  File contents and code-block contents   *)
(* are sequences of tokens: "\n", " ", and tokens without white space.  In *)
(* a file of the project and in a block that is not a diff every token is  *)
(* one character, so that difflib's character-level similarity can be      *)
(* computed on them; lines are the runs of tokens up to and including a    *)
(* "\n" (str.splitlines(keepends=True)).                                   *)
(***************************************************************************)
NL == "\n"

RECURSIVE splitlines(_)
splitlines(text) ==
    IF text = <<>> THEN <<>>
    ELSE LET ends == {i \in 1..Len(text) : text[i] = NL}
             n == IF ends = {} THEN Len(text) ELSE MinOf(ends)
         IN  <<SubSeq(text, 1, n)>>
                 \o splitlines(SubSeq(text, n + 1, Len(text)))

\* str.strip()
strip(text) ==
    LET solid == {i \in 1..Len(text) : text[i] \notin Spaces}
    IN  IF solid = {} THEN <<>>
        ELSE SubSeq(text, MinOf(solid), MaxOf(solid))

(***************************************************************************)
(* difflib.SequenceMatcher without junk (the sequences are far below the   *)
(* 200 elements at which autojunk starts).  Positions are Python's:        *)
(* 0-based, ranges half open, so element i of a is a[i + 1] here.          *)
(***************************************************************************)
\* the longest block a[i:i+k] = b[j:j+k] inside a[alo:ahi], b[blo:bhi]; of
\* the longest ones the one that starts first in a, then first in b
find_longest_match(a, b, alo, ahi, blo, bhi) ==
    LET blocks ==
            {x \in (alo..(ahi - 1)) \X (blo..(bhi - 1))
                       \X (1..Min(ahi - alo, bhi - blo)) :
                /\ x[1] + x[3] <= ahi
                /\ x[2] + x[3] <= bhi
                /\ \A d \in 1..x[3] : a[x[1] + d] = b[x[2] + d]}
        Better(x, y) ==
            \/ x[3] > y[3]
            \/ x[3] = y[3] /\ x[1] < y[1]
            \/ x[3] = y[3] /\ x[1] = y[1] /\ x[2] <= y[2]
    IN  IF blocks = {} THEN <<alo, blo, 0>>
        ELSE CHOOSE x \in blocks : \A y \in blocks : Better(x, y)

RECURSIVE matching_blocks(_, _, _, _, _, _)
matching_blocks(a, b, alo, ahi, blo, bhi) ==
    IF alo >= ahi \/ blo >= bhi THEN <<>>
    ELSE LET m == find_longest_match(a, b, alo, ahi, blo, bhi)
         IN  IF m[3] = 0 THEN <<>>
             ELSE matching_blocks(a, b, alo, m[1], blo, m[2])
                      \o <<m>>
                      \o matching_blocks(a, b, m[1] + m[3], ahi,
                                         m[2] + m[3], bhi)

\* get_matching_blocks: the blocks and the closing (len(a), len(b), 0)
get_matching_blocks(a, b) ==
    matching_blocks(a, b, 0, Len(a), 0, Len(b)) \o <<(<<Len(a), Len(b), 0>>)>>

RECURSIVE SumSizes(_)
SumSizes(blocks) ==
    IF blocks = <<>> THEN 0 ELSE Head(blocks)[3] + SumSizes(Tail(blocks))

\* 0.5 < SequenceMatcher(None, a, b).ratio() < 1.0, the ratio being
\* 2 * matches / (len(a) + len(b)), and 1.0 for two empty sequences
SimilarNotEqual(a, b) ==
    LET matches == SumSizes(get_matching_blocks(a, b))
        length == Len(a) + Len(b)
    IN  length > 0 /\ 4 * matches > length /\ 2 * matches < length

\* get_opcodes: what turns a into b, block by block
RECURSIVE opcodes_from(_, _, _)
opcodes_from(blocks, i, j) ==
    IF blocks = <<>> THEN <<>>
    ELSE LET ai == Head(blocks)[1]
             bj == Head(blocks)[2]
             size == Head(blocks)[3]
             tag == IF i < ai /\ j < bj THEN "replace"
                    ELSE IF i < ai THEN "delete"
                    ELSE IF j < bj THEN "insert"
                    ELSE "none"
             gap == IF tag = "none" THEN <<>>
                    ELSE <<[tag |-> tag, i1 |-> i, i2 |-> ai,
                            j1 |-> j, j2 |-> bj]>>
             same == IF size = 0 THEN <<>>
                     ELSE <<[tag |-> "equal", i1 |-> ai, i2 |-> ai + size,
                             j1 |-> bj, j2 |-> bj + size]>>
         IN  gap \o same \o opcodes_from(Tail(blocks), ai + size, bj + size)

get_opcodes(a, b) == opcodes_from(get_matching_blocks(a, b), 0, 0)

\* get_grouped_opcodes(n) for sequences short enough to make one group (no
\* run of more than 2n equal lines between two changes): the leading and
\* the trailing equal run are cut to n lines; no group at all when nothing
\* differs
ContextLines == 3

get_grouped_opcodes(a, b, n) ==
    LET codes == IF get_opcodes(a, b) = <<>>
                 THEN <<[tag |-> "equal", i1 |-> 0, i2 |-> 1,
                         j1 |-> 0, j2 |-> 1]>>
                 ELSE get_opcodes(a, b)
        CutFirst(c) ==
            IF c.tag = "equal"
            THEN [c EXCEPT !.i1 = Max(c.i1, c.i2 - n),
                           !.j1 = Max(c.j1, c.j2 - n)]
            ELSE c
        CutLast(c) ==
            IF c.tag = "equal"
            THEN [c EXCEPT !.i2 = Min(c.i2, c.i1 + n),
                           !.j2 = Min(c.j2, c.j1 + n)]
            ELSE c
        first == [codes EXCEPT ![1] = CutFirst(codes[1])]
        group == [first EXCEPT ![Len(codes)] = CutLast(first[Len(codes)])]
    IN  IF Len(group) = 1 /\ group[1].tag = "equal" THEN <<>> ELSE <<group>>

\* _format_range_unified
format_range_unified(start, stop) ==
    LET length == stop - start
    IN  IF length = 1 THEN <<ToString(start + 1)>>
        ELSE <<ToString(IF length = 0 THEN start ELSE start + 1), ",",
               ToString(length)>>

\* the lines of one opcode, each behind its prefix
OpcodeLines(a, b, c) ==
    IF c.tag = "equal"
    THEN [k \in 1..(c.i2 - c.i1) |-> <<" ">> \o a[c.i1 + k]]
    ELSE (IF c.tag \in {"replace", "delete"}
          THEN [k \in 1..(c.i2 - c.i1) |-> <<"-">> \o a[c.i1 + k]]
          ELSE <<>>)
         \o (IF c.tag \in {"replace", "insert"}
             THEN [k \in 1..(c.j2 - c.j1) |-> <<"+">> \o b[c.j1 + k]]
             ELSE <<>>)

\* difflib.unified_diff(a, b, fromfile, tofile, lineterm=...): the lines it
\* yields, a and b being lists of lines; the control lines end in lineterm
unified_diff(a, b, fromfile, tofile, lineterm) ==
    LET groups == get_grouped_opcodes(a, b, ContextLines)
    IN  IF groups = <<>> THEN <<>>
        ELSE LET group == groups[1]
                 last == group[Len(group)]
             IN  <<(<<"---", " ">> \o fromfile \o lineterm),
                   (<<"+++", " ">> \o tofile \o lineterm),
                   (<<"@@", " ", "-">>
                        \o format_range_unified(group[1].i1, last.i2)
                        \o <<" ", "+">>
                        \o format_range_unified(group[1].j1, last.j2)
                        \o <<" ", "@@">> \o lineterm)>>
                 \o Flatten([k \in 1..Len(group) |->
                                 OpcodeLines(a, b, group[k])])

\* _make_diff (lines 276-287): lineterm is "" and the lines are joined
\* with nothing between them
NoLineTerm == <<>>

_make_diff(file_path, original_content, modified) ==
    Flatten(unified_diff(splitlines(original_content), splitlines(modified),
                         <<"a/">> \o file_path, <<"b/">> \o file_path,
                         NoLineTerm))

(***************************************************************************)
(* The assistant's response is a sequence of items: a line of prose, a     *)
(* line "FILE: <path>", or a fenced code block with its language tag ("" *)
(* for a bare fence) and its content.  Fences stand on lines of their own, *)
(* blocks are not empty and no item holds a fence or a FILE: marker inside *)
(* its text.                                                               *)
(***************************************************************************)
Prose == [k |-> "prose"]
FileMarker(path) == [k |-> "file", path |-> path]
Block(tag, content) == [k |-> "block", tag |-> tag, content |-> content]

\* what (.+?) holds of an item that lies between FILE: and the fence
ItemText(item) ==
    IF item.k = "prose" THEN <<"prose">> ELSE <<"FILE:", " ", item.path>>

\* contents: the file app.py as it is on disk, the same with a blank line
\* after it, a changed version, and two diffs
FileAB == <<"a", NL, "b", NL>>
FileABNoNewline == <<"a", NL, "b">>
FileACD == <<"a", NL, "c", NL, "d", NL>>
Padded == <<"a", NL, "b", NL, NL>>
Changed == <<"a", NL, "c", NL>>
DiffWithHeader ==
    <<"---", " ", "a/", "app.py", NL, "+++", " ", "b/", "app.py", NL,
      "@@", " ", "-", "2", " ", "+", "2", " ", "@@", NL,
      "-", "b", NL, "+", "c", NL>>
DiffNoHeader ==
    <<"@@", " ", "-", "2", " ", "+", "2", " ", "@@", NL,
      "-", "b", NL, "+", "c", NL>>

Items ==
    {Prose, FileMarker("app.py"), FileMarker("new.py"),
     Block("", FileAB), Block("python", FileAB), Block("python", Padded),
     Block("", Changed), Block("python", Changed),
     Block("diff", DiffWithHeader), Block("diff", DiffNoHeader)}

\* the project: its files in the order rglob yields them
File(path, content) == [path |-> path, content |-> content]

Projects ==
    {<<>>,
     <<File("app.py", FileAB)>>,
     <<File("app.py", FileABNoNewline)>>,
     <<File("app.py", FileAB), File("util.py", FileACD)>>,
     <<File("util.py", FileACD), File("app.py", FileAB)>>}

\* the suffix of a file name
Suffix(path) ==
    CASE path \in {"app.py", "util.py", "new.py"} -> ".py"
      [] OTHER -> ""

\* Path(project_path) / file_path exists, and its read_text()
Exists(proj, file_path) ==
    \E f \in 1..Len(proj) : <<proj[f].path>> = file_path

ReadText(proj, file_path) ==
    proj[CHOOSE f \in 1..Len(proj) : <<proj[f].path>> = file_path].content

FileChange(file_path, original_content, modified_content, difftext) ==
    [file_path |-> file_path, original_content |-> original_content,
     modified_content |-> modified_content, diff |-> difftext]

(***************************************************************************)
(* Strategy 1 (lines 180-202).  file_pattern matches from a FILE: line to  *)
(* the closing fence of the first block after it; group 1 is lazy and      *)
(* DOTALL, so it takes every line between the marker and that block's      *)
(* opening fence.  finditer goes on behind the match.                      *)
(***************************************************************************)
RECURSIVE file_pattern_finditer(_, _)
file_pattern_finditer(raw, pos) ==
    LET markers == {i \in pos..Len(raw) : raw[i].k = "file"}
    IN  IF markers = {} THEN <<>>
        ELSE LET i == MinOf(markers)
                 blocks == {j \in (i + 1)..Len(raw) : raw[j].k = "block"}
             IN  IF blocks = {} THEN <<>>
                 ELSE LET j == MinOf(blocks)
                          between ==
                              Flatten([k \in 1..(j - i - 1) |->
                                          <<NL>> \o ItemText(raw[i + k])])
                      IN  <<[group1 |-> <<raw[i].path>> \o between,
                             group2 |-> raw[j].content]>>
                              \o file_pattern_finditer(raw, j + 1)

FileMarkerChange(proj, m) ==
    LET file_path == strip(m.group1)
        new_content == m.group2
        original_content == IF Exists(proj, file_path)
                            THEN ReadText(proj, file_path) ELSE <<>>
    IN  IF strip(new_content) # strip(original_content)
        THEN <<FileChange(file_path, original_content, new_content,
                          _make_diff(file_path, original_content,
                                     new_content))>>
        ELSE <<>>

Strategy1(raw, proj) ==
    LET ms == file_pattern_finditer(raw, 1)
    IN  Flatten([k \in 1..Len(ms) |-> FileMarkerChange(proj, ms[k])])

(***************************************************************************)
(* Strategy 2 (lines 204-218): the blocks fenced as diff, each with the    *)
(* file name of its first ---/+++ header line, if it has one.              *)
(***************************************************************************)
\* re.search(r"[+-]{3}\s+[ab]/(.+)", diff_text): the positions of a header
HeaderStarts(text) ==
    {i \in 1..(Len(text) - 3) :
        /\ text[i] \in {"---", "+++"}
        /\ text[i + 1] \in Spaces
        /\ text[i + 2] \in {"a/", "b/"}
        /\ text[i + 3] # NL}

\* group 1: the rest of the line
RestOfLine(text, i) ==
    LET ends == {j \in i..Len(text) : text[j] = NL}
    IN  SubSeq(text, i, IF ends = {} THEN Len(text) ELSE MinOf(ends) - 1)

DiffBlockChange(block) ==
    LET diff_text == block.content
        starts == HeaderStarts(diff_text)
    IN  IF starts = {} THEN <<>>
        ELSE <<FileChange(strip(RestOfLine(diff_text, MinOf(starts) + 3)),
                          <<>>, <<>>, diff_text)>>

Strategy2(raw) ==
    Flatten([k \in 1..Len(raw) |->
                IF raw[k].k = "block" /\ raw[k].tag = "diff"
                THEN DiffBlockChange(raw[k]) ELSE <<>>])

(***************************************************************************)
(* Strategy 3 (lines 220-249): the blocks with a language tag, each        *)
(* compared with the project's files of that language; the first file that *)
(* is similar but not equal gives the change.                              *)
(***************************************************************************)
ext_map(lang) ==
    CASE lang \in {"python", "py"} -> ".py"
      [] lang \in {"javascript", "js"} -> ".js"
      [] lang \in {"rust", "rs"} -> ".rs"
      [] OTHER -> ""

FuzzyChange(proj, block) ==
    LET ext == ext_map(block.tag)
        content == block.content
        similar == {f \in 1..Len(proj) :
                       /\ Suffix(proj[f].path) = ext
                       /\ SimilarNotEqual(proj[f].content, content)}
    IN  IF ext = "" \/ similar = {} THEN <<>>
        ELSE LET src_file == proj[MinOf(similar)]
             IN  <<FileChange(<<src_file.path>>, src_file.content, content,
                              _make_diff(<<src_file.path>>, src_file.content,
                                         content))>>

Strategy3(raw, proj) ==
    Flatten([k \in 1..Len(raw) |->
                IF raw[k].k = "block" /\ raw[k].tag # ""
                THEN FuzzyChange(proj, raw[k]) ELSE <<>>])

(***************************************************************************)
(* generate_patch (lines 33-62) and the steps of the run command that      *)
(* follow it (cli.py lines 51-94), as a state machine.  pc is the place    *)
(* the call has reached.  _parse_response is three steps, one per          *)
(* strategy; a strategy guarded by "if not changes" is stepped over when   *)
(* the list is not empty.                                                  *)
(***************************************************************************)
MaxItems == 3

Responses == SeqsUpTo(Items, MaxItems)

PatchResult(cs) == [changes |-> cs]
CopilotError(message) == [error |-> message]
\* generate_patch has neither returned nor raised
NoPatch == [pending |-> TRUE]

InitCopilot ==
    /\ pc = "asking"
    /\ raw_output \in Responses
    /\ project \in Projects
    /\ changes = <<>>
    /\ patch = NoPatch
    /\ VerifierIdle
    /\ ClassifierIdle
    /\ DetectorIdle

\* _run_copilot (lines 85-126): gh is missing or times out, or the output
\* is empty; otherwise the output goes to _parse_response
RunCopilotFails ==
    /\ pc = "asking"
    /\ patch' = CopilotError("gh missing or timed out")
    /\ pc' = "raised"
    /\ UNCHANGED <<raw_output, project, changes>>
    /\ UNCHANGED <<verifierVars, classifierVars, detectorVars, sessionVars>>

RunCopilot ==
    /\ pc = "asking"
    /\ IF raw_output = <<>>
       THEN patch' = CopilotError("empty response") /\ pc' = "raised"
       ELSE patch' = patch /\ pc' = "strategy1"
    /\ UNCHANGED <<raw_output, project, changes>>
    /\ UNCHANGED <<verifierVars, classifierVars, detectorVars, sessionVars>>

FileMarkers ==
    /\ pc = "strategy1"
    /\ changes' = changes \o Strategy1(raw_output, project)
    /\ pc' = "strategy2"
    /\ UNCHANGED <<raw_output, project, patch>>
    /\ UNCHANGED <<verifierVars, classifierVars, detectorVars, sessionVars>>

\* strategy 2 without its guard
DiffBlocksUnguarded ==
    /\ pc = "strategy2"
    /\ changes' = changes \o Strategy2(raw_output)
    /\ pc' = "strategy3"
    /\ UNCHANGED <<raw_output, project, patch>>
    /\ UNCHANGED <<verifierVars, classifierVars, detectorVars, sessionVars>>

DiffBlocks ==
    /\ pc = "strategy2"
    /\ changes = <<>>
    /\ changes' = changes \o Strategy2(raw_output)
    /\ pc' = "strategy3"
    /\ UNCHANGED <<raw_output, project, patch>>
    /\ UNCHANGED <<verifierVars, classifierVars, detectorVars, sessionVars>>

SkipDiffBlocks ==
    /\ pc = "strategy2"
    /\ changes # <<>>
    /\ pc' = "strategy3"
    /\ UNCHANGED <<raw_output, project, changes, patch>>
    /\ UNCHANGED <<verifierVars, classifierVars, detectorVars, sessionVars>>

FuzzyMatch ==
    /\ pc = "strategy3"
    /\ changes = <<>>
    /\ changes' = changes \o Strategy3(raw_output, project)
    /\ pc' = "parsed"
    /\ UNCHANGED <<raw_output, project, patch>>
    /\ UNCHANGED <<verifierVars, classifierVars, detectorVars, sessionVars>>

SkipFuzzyMatch ==
    /\ pc = "strategy3"
    /\ changes # <<>>
    /\ pc' = "parsed"
    /\ UNCHANGED <<raw_output, project, changes, patch>>
    /\ UNCHANGED <<verifierVars, classifierVars, detectorVars, sessionVars>>

\* _parse_response (lines 176-251) as one function
_parse_response(raw, proj) ==
    LET one == Strategy1(raw, proj)
        two == IF one = <<>> THEN Strategy2(raw) ELSE one
    IN  IF two = <<>> THEN Strategy3(raw, proj) ELSE two

\* a generate_patch that returns whatever was extracted
GeneratePatchUnchecked ==
    /\ pc = "parsed"
    /\ patch' = PatchResult(changes)
    /\ pc' = "patched"
    /\ UNCHANGED <<raw_output, project, changes>>
    /\ UNCHANGED <<verifierVars, classifierVars, detectorVars, sessionVars>>

\* generate_patch, lines 52-62
GeneratePatch ==
    /\ pc = "parsed"
    /\ IF changes = <<>>
       THEN /\ patch' = CopilotError("no file changes")
            /\ pc' = "raised"
       ELSE /\ patch' = PatchResult(changes)
            /\ pc' = "patched"
    /\ UNCHANGED <<raw_output, project, changes>>
    /\ UNCHANGED <<verifierVars, classifierVars, detectorVars, sessionVars>>

\* cli.py lines 60-62: except CopilotError, sys.exit(1)
ExitOnCopilotError ==
    /\ pc = "raised"
    /\ pc' = "exit1"
    /\ UNCHANGED <<copilotVars, verifierVars, classifierVars, detectorVars, sessionVars>>

\* cli.py line 64
ShowPatchPreview ==
    /\ pc = "patched"
    /\ pc' = "preview"
    /\ UNCHANGED <<copilotVars, verifierVars, classifierVars, detectorVars, sessionVars>>

\* cli.py lines 67-70: --no-confirm, or the user's answer
ConfirmApply ==
    /\ pc = "preview"
    /\ pc' \in {"confirmed", "aborted"}
    /\ UNCHANGED <<copilotVars, verifierVars, classifierVars, detectorVars, sessionVars>>

\* cli.py lines 73-79: apply_patch returns or raises PatchError
ApplyPatch ==
    /\ pc = "confirmed"
    /\ pc' \in {"applied", "exit1"}
    /\ UNCHANGED <<copilotVars, verifierVars, classifierVars, detectorVars, sessionVars>>

\* cli.py lines 82-94: verify and report
VerifyAndReport ==
    /\ pc = "applied"
    /\ pc' = "done"
    /\ UNCHANGED <<copilotVars, verifierVars, classifierVars, detectorVars, sessionVars>>

NextCopilot ==
    \/ RunCopilotFails
    \/ RunCopilot
    \/ FileMarkers
    \/ DiffBlocks
    \/ SkipDiffBlocks
    \/ FuzzyMatch
    \/ SkipFuzzyMatch
    \/ GeneratePatch
    \/ ExitOnCopilotError
    \/ ShowPatchPreview
    \/ ConfirmApply
    \/ ApplyPatch
    \/ VerifyAndReport

SpecCopilot == InitCopilot /\ [][NextCopilot]_vars

(***************************************************************************)
(* The test runner (detector.py) and the three parsers                     *)
(* (parsers/pytest_parser.py, npm_parser.py, cargo_parser.py).             *)
(*                                                                         *)
(* Raw test output is a sequence of lines.  A line is a record that says   *)
(* which of the parsers' patterns it matches and carries the text of the   *)
(* groups those patterns capture; numbers are kept as the tokens the       *)
(* patterns capture, so that int() and float() have something to convert.  *)
(* LineText gives the text of a line.  The outputs are short enough that   *)
(* the slices [:500], [:1000] and [-20:] of the parsers keep everything.   *)
(***************************************************************************)

\* detector.py lines 21-27; line_number None is NoLineNumber
NoLineNumber == -1

ParsedFailure(test_name, file_path, line_number, error_message, full_output) ==
    [test_name |-> test_name, file_path |-> file_path,
     line_number |-> line_number, error_message |-> error_message,
     full_output |-> full_output]

\* detector.py lines 30-39; durations are in hundredths of a second
TestResult(passed, exit_code, raw, total, npassed, nfailed, fs, duration) ==
    [passed |-> passed, exit_code |-> exit_code, raw_output |-> raw,
     total_tests |-> total, passed_count |-> npassed,
     failed_count |-> nfailed, failures |-> fs,
     duration_seconds |-> duration]

\* an exception leaving parse
Raised(exception) == [raised |-> exception]

\* int() of a token that \d+ matched
int(tok) ==
    CASE tok = "0" -> 0 [] tok = "1" -> 1 [] tok = "2" -> 2 [] tok = "3" -> 3
      [] tok = "4" -> 4 [] tok = "5" -> 5 [] tok = "01" -> 1
      [] tok = "10" -> 10 [] tok = "12" -> 12 [] tok = "20" -> 20

DigitCount(tok) == IF tok \in {"01", "10", "12", "20"} THEN 2 ELSE 1

\* float() of the tokens that [\d.]+ matched: digits with at most one
\* point and at least one digit; anything else is a ValueError.  The value
\* is in hundredths.
float(toks) ==
    LET points == {i \in 1..Len(toks) : toks[i] = "."}
        digits == {i \in 1..Len(toks) : toks[i] # "."}
    IN  IF Cardinality(points) > 1 \/ digits = {}
            \/ \E i \in digits : i + 1 \in digits
        THEN [ok |-> FALSE, value |-> 0]
        ELSE LET p == IF points = {} THEN Len(toks) + 1
                      ELSE CHOOSE i \in points : TRUE
                 whole == IF p > 1 THEN int(toks[p - 1]) ELSE 0
                 frac == IF p < Len(toks)
                         THEN IF DigitCount(toks[p + 1]) = 1
                              THEN 10 * int(toks[p + 1])
                              ELSE int(toks[p + 1])
                         ELSE 0
             IN  [ok |-> TRUE, value |-> 100 * whole + frac]

(***************************************************************************)
(* pytest output lines.                                                    *)
(***************************************************************************)

\* "=== 1 failed, 4 passed in 0.20s ===": SUMMARY_RE, line 8
PytestSummary(counts, duration) ==
    [k |-> "summary", counts |-> counts, duration |-> duration]

Count(n, what) == [n |-> n, what |-> what]

\* "=== short test summary info ===": SHORT_SUMMARY_RE, line 12
ShortSummary == [k |-> "short_summary"]

\* "FAILED tests/test_a.py::test_a - assert 3 == 3": FAILED_LINE_RE, line 13
FailedLine(file, name, msg) ==
    [k |-> "failed_line", file |-> file, name |-> name, msg |-> msg]

\* "ERROR tests/test_a.py::test_b - ...": ERROR_LINE_RE, line 14
ErrorLine(file, name, msg) ==
    [k |-> "error_line", file |-> file, name |-> name, msg |-> msg]

\* "ERROR collecting tests/test_b.py": ERROR_COLLECT_RE, line 16
CollectLine(file) == [k |-> "collect_line", file |-> file]

\* "tests/test_a.py::test_a PASSED": a line of pytest -v
TestLine(file, name, outcome) ==
    [k |-> "test_line", file |-> file, name |-> name, outcome |-> outcome]

\* "_____ test_divide _____", the header of a traceback: SECTION_SEP_RE
Section(name) == [k |-> "section", name |-> name]

\* "tests/test_calc.py:12: AssertionError": TRACEBACK_FILE_RE, line 19
TracebackFile(file, line, text) ==
    [k |-> "traceback_file", file |-> file, line |-> line, text |-> text]

\* a line none of the patterns matches
Other(text) == [k |-> "other", text |-> text]

\* the words of a summary: "1 failed, 4 passed"
RECURSIVE CountsText(_)
CountsText(counts) ==
    IF counts = <<>> THEN <<>>
    ELSE <<Head(counts).n, " ", Head(counts).what>>
         \o (IF Len(counts) > 1 THEN <<",", " ">> ELSE <<>>)
         \o CountsText(Tail(counts))

PytestLineText(line) ==
    CASE line.k = "summary" ->
           <<"=", "=", "=", " ">>
           \o (IF line.counts = <<>> THEN <<"no", " ", "tests", " ", "ran">>
               ELSE CountsText(line.counts))
           \o <<" ", "in", " ">> \o line.duration \o <<"s", " ", "=", "=", "=">>
      [] line.k = "short_summary" ->
           <<"=", "=", "=", " ", "short", " ", "test", " ", "summary", " ",
             "info", " ", "=", "=", "=">>
      [] line.k = "failed_line" ->
           <<"FAILED", " ", line.file, ":", ":", line.name>>
           \o (IF line.msg = <<>> THEN <<>> ELSE <<" ", "-", " ">> \o line.msg)
      [] line.k = "error_line" ->
           <<"ERROR", " ", line.file, ":", ":", line.name>>
           \o (IF line.msg = <<>> THEN <<>> ELSE <<" ", "-", " ">> \o line.msg)
      [] line.k = "collect_line" ->
           <<"ERROR", " ", "collecting", " ", line.file>>
      [] line.k = "test_line" ->
           <<line.file, ":", ":", line.name, " ", line.outcome>>
      [] line.k = "section" ->
           <<"_____", " ", line.name, " ", "_____">>
      [] line.k = "traceback_file" ->
           <<line.file, ":", line.line, ":", " ">> \o line.text
      [] line.k = "other" -> line.text

\* `word in line`, for the words the parsers look for
HasWord(toks, word) == \E i \in 1..Len(toks) : toks[i] = word

\* `"::" in line`
HasDoubleColon(toks) ==
    \E i \in 1..(Len(toks) - 1) : toks[i] = ":" /\ toks[i + 1] = ":"

\* lines 40-48: the first "<n> <what>" of the summary text, else 0
CountOf(counts, what) ==
    LET found == {i \in 1..Len(counts) : counts[i].what = what}
    IN  IF found = {} THEN 0
        ELSE int(counts[CHOOSE i \in found : \A j \in found : i <= j].n)

\* lines 35-49: the last line SUMMARY_RE matches
LastSummary(lines) ==
    LET found == {i \in 1..Len(lines) : lines[i].k = "summary"}
    IN  IF found = {} THEN 0 ELSE CHOOSE i \in found : \A j \in found : j <= i

\* `test_name in line`: the names of the tests are tokens of the lines
NameIn(name, line) == HasWord(PytestLineText(line), name)

\* line.startswith("=") and line.startswith("_"); the lines that start so
\* are longer than 10 characters
StartsWith(line, toks) == PytestLineText(line)[1] \in toks

\* _find_line_number, lines 153-167: the last "<file>.py:<n>:" after a line
\* that names the test together with FAILED or a rule of underscores, up to
\* and including the next line that starts a section
RECURSIVE FindLineNumber(_, _, _, _, _)
FindLineNumber(lines, i, test_name, in_traceback, last_line_num) ==
    IF i > Len(lines) THEN last_line_num
    ELSE LET line == lines[i]
             text == PytestLineText(line)
         IN  IF NameIn(test_name, line)
                /\ (HasWord(text, "FAILED") \/ HasWord(text, "_____"))
             THEN FindLineNumber(lines, i + 1, test_name, TRUE, last_line_num)
             ELSE IF ~in_traceback
             THEN FindLineNumber(lines, i + 1, test_name, FALSE,
                                 last_line_num)
             ELSE LET num == IF line.k = "traceback_file"
                             THEN int(line.line) ELSE last_line_num
                  IN  IF StartsWith(line, {"=", "_____"}) THEN num
                      ELSE FindLineNumber(lines, i + 1, test_name, TRUE, num)

_find_line_number(lines, file_path, test_name) ==
    FindLineNumber(lines, 1, test_name, FALSE, NoLineNumber)

\* _extract_traceback, lines 192-206: the lines after the header of the
\* test up to the next line of "=" or the header of another test
RECURSIVE TracebackLines(_, _, _, _)
TracebackLines(lines, i, test_name, capturing) ==
    IF i > Len(lines) THEN <<>>
    ELSE LET line == lines[i]
         IN  IF line.k = "section" /\ line.name = test_name
             THEN TracebackLines(lines, i + 1, test_name, TRUE)
             ELSE IF ~capturing
             THEN TracebackLines(lines, i + 1, test_name, FALSE)
             ELSE IF StartsWith(line, {"="})
                     \/ (StartsWith(line, {"_____"})
                         /\ ~NameIn(test_name, line))
             THEN <<>>
             ELSE <<PytestLineText(line)>>
                  \o TracebackLines(lines, i + 1, test_name, TRUE)

_extract_traceback(lines, test_name) ==
    Join(TracebackLines(lines, 1, test_name, FALSE), "\n")

\* lines 59-74 and 91-104: the record of a FAILED line
FailedRecord(lines, line) ==
    ParsedFailure(<<line.name>>, <<line.file>>,
                  _find_line_number(lines, line.file, line.name), line.msg,
                  _extract_traceback(lines, line.name))

\* lines 53-86: FAILED and ERROR lines after the short summary header
RECURSIVE SummaryFailures(_, _, _)
SummaryFailures(lines, i, in_summary) ==
    IF i > Len(lines) THEN <<>>
    ELSE LET line == lines[i]
         IN  IF line.k = "short_summary"
             THEN SummaryFailures(lines, i + 1, TRUE)
             ELSE (IF in_summary /\ line.k = "failed_line"
                   THEN <<FailedRecord(lines, line)>>
                   ELSE IF in_summary /\ line.k = "error_line"
                   THEN <<ParsedFailure(<<line.name>>, <<line.file>>,
                                        NoLineNumber, line.msg, <<>>)>>
                   ELSE <<>>)
                  \o SummaryFailures(lines, i + 1, in_summary)

\* lines 89-104: FAILED lines anywhere in the output
BodyFailures(lines) ==
    LET found == SelectSeq(lines, LAMBDA line : line.k = "failed_line")
    IN  [i \in 1..Len(found) |-> FailedRecord(lines, found[i])]

CollectionErrorMessage ==
    <<"(", "collection", " ", "error", ")">>

MaxCollectionErrors == 5

\* a record for every "ERROR collecting" line
RECURSIVE CollectionFailuresAll(_, _, _)
CollectionFailuresAll(lines, seen_files, n) ==
    IF lines = <<>> THEN <<>>
    ELSE (IF Head(lines).k = "collect_line"
          THEN <<ParsedFailure(<<"collect", ":", " ", Head(lines).file>>,
                               <<Head(lines).file>>, NoLineNumber,
                               CollectionErrorMessage, <<>>)>>
          ELSE <<>>)
         \o CollectionFailuresAll(Tail(lines), seen_files, n)

\* lines 107-126: one failure per file of an "ERROR collecting" line
RECURSIVE CollectionFailures(_, _, _)
CollectionFailures(lines, seen_files, n) ==
    IF lines = <<>> \/ n >= MaxCollectionErrors THEN <<>>
    ELSE LET line == Head(lines)
         IN  IF line.k = "collect_line" /\ line.file \notin seen_files
             THEN <<ParsedFailure(<<"collect", ":", " ", line.file>>,
                                  <<line.file>>, NoLineNumber,
                                  CollectionErrorMessage, <<>>)>>
                  \o CollectionFailures(Tail(lines),
                                        seen_files \cup {line.file}, n + 1)
             ELSE CollectionFailures(Tail(lines), seen_files, n)

\* lines 129-136: count the test lines
RECURSIVE CountLines(_, _)
CountLines(lines, what) ==
    IF lines = <<>> THEN 0
    ELSE LET text == PytestLineText(Head(lines))
             kind == IF HasWord(text, "PASSED") THEN "passed"
                     ELSE IF HasWord(text, "FAILED") THEN "failed"
                     ELSE IF HasWord(text, "ERROR") /\ HasDoubleColon(text)
                     THEN "error" ELSE "none"
         IN  (IF kind = what THEN 1 ELSE 0) + CountLines(Tail(lines), what)

\* a count of failures that leaves the errors out
FoldNothing(failed, errors) == failed

\* line 139: errors are treated as failures
FoldErrors(failed, errors) == failed + errors

\* pytest_parser.parse, lines 24-150
parse_pytest(lines) ==
    LET s == LastSummary(lines)
        duration == IF s = 0 THEN [ok |-> TRUE, value |-> 0]
                    ELSE float(lines[s].duration)
        failed0 == IF s = 0 THEN 0 ELSE CountOf(lines[s].counts, "failed")
        passed0 == IF s = 0 THEN 0 ELSE CountOf(lines[s].counts, "passed")
        error0 == IF s = 0 THEN 0 ELSE CountOf(lines[s].counts, "error")
        f1 == SummaryFailures(lines, 1, FALSE)
        f2 == IF f1 = <<>> /\ failed0 > 0 THEN BodyFailures(lines) ELSE f1
        failures_ == IF f2 = <<>> /\ error0 > 0
                     THEN CollectionFailures(lines, {}, 0) ELSE f2
        fallback == passed0 = 0 /\ failed0 = 0
        passed_count == IF fallback THEN CountLines(lines, "passed")
                        ELSE passed0
        failed1 == IF fallback THEN CountLines(lines, "failed") ELSE failed0
        error_count == IF fallback THEN error0 + CountLines(lines, "error")
                       ELSE error0
        total == passed_count + failed1 + error_count
        failed_count == FoldErrors(failed1, error_count)
    IN  IF ~duration.ok THEN Raised("ValueError")
        ELSE TestResult(failed_count = 0, 0, lines, total, passed_count,
                        failed_count, failures_, duration.value)

(***************************************************************************)
(* npm output lines (Jest and Mocha).                                      *)
(***************************************************************************)

\* "Tests:       1 failed, 2 passed, 3 total": JEST_SUMMARY_RE, lines 7-9;
\* a group that did not take part is the empty token
JestSummary(failed, passed, total) ==
    [k |-> "jest_summary", failed |-> failed, passed |-> passed,
     total |-> total]

\* "Time:        1.5 s": JEST_TIME_RE, line 15
JestTime(duration) == [k |-> "jest_time", duration |-> duration]

\* "FAIL src/app.test.js": JEST_FAIL_FILE_RE, line 10
FailFile(file) == [k |-> "fail_file", file |-> file]

\* "  x adds": JEST_TEST_FAIL_RE, line 11
JestTestFail(name) == [k |-> "jest_test_fail", name |-> name]

\* "  2 passing" and "  1 failing": MOCHA_PASSING_RE, MOCHA_FAILING_RE
MochaCount(n, what) == [k |-> "mocha_count", n |-> n, what |-> what]

\* "  1) adds": MOCHA_FAIL_TITLE_RE, line 20
MochaFailTitle(name) == [k |-> "mocha_fail_title", name |-> name]

NpmLineText(line) ==
    CASE line.k = "jest_summary" ->
           <<"Tests", ":", " ">>
           \o (IF line.failed = "" THEN <<>>
               ELSE <<line.failed, " ", "failed", ",", " ">>)
           \o (IF line.passed = "" THEN <<>>
               ELSE <<line.passed, " ", "passed", ",", " ">>)
           \o <<line.total, " ", "total">>
      [] line.k = "jest_time" ->
           <<"Time", ":", " ">> \o line.duration \o <<" ", "s">>
      [] line.k = "fail_file" -> <<"FAIL", " ", line.file>>
      [] line.k = "jest_test_fail" -> <<" ", " ", "x", " ", line.name>>
      [] line.k = "mocha_count" -> <<" ", " ", line.n, " ", line.what>>
      [] line.k = "mocha_fail_title" ->
           <<" ", " ", "1", ")", " ", line.name>>
      [] line.k = "other" -> line.text

\* "\n".join of the text of the lines
RECURSIVE NpmRaw(_)
NpmRaw(lines) ==
    IF lines = <<>> THEN <<>>
    ELSE NpmLineText(Head(lines))
         \o (IF Len(lines) > 1 THEN <<"\n">> ELSE <<>>)
         \o NpmRaw(Tail(lines))

\* `int(group or 0)`, lines 61-63
IntOrZero(tok) == IF tok = "" THEN 0 ELSE int(tok)

\* the first line of a kind, 0 when there is none: pattern.search(raw_output)
FirstOf(lines, P(_)) ==
    LET found == {i \in 1..Len(lines) : P(lines[i])}
    IN  IF found = {} THEN 0 ELSE CHOOSE i \in found : \A j \in found : i <= j

\* the last line of a kind, 0 when there is none
LastOf(lines, P(_)) ==
    LET found == {i \in 1..Len(lines) : P(lines[i])}
    IN  IF found = {} THEN 0 ELSE CHOOSE i \in found : \A j \in found : j <= i

\* raw_output[pos:pos + 1000] for pos at the end of line i
Chunk(lines, i) ==
    IF i = Len(lines) THEN <<>>
    ELSE <<"\n">> \o NpmRaw(SubSeq(lines, i + 1, Len(lines)))

\* lines 70-105: one failure for each failing-test line, all with the file
\* of the last FAIL line
RECURSIVE JestFailures(_, _, _)
JestFailures(lines, i, current_file) ==
    IF i > Len(lines) THEN <<>>
    ELSE (IF lines[i].k = "jest_test_fail"
          THEN <<ParsedFailure(<<lines[i].name>>, current_file,
                               NoLineNumber, <<>>, Chunk(lines, i))>>
          ELSE <<>>)
         \o JestFailures(lines, i + 1, current_file)

IsJestSummary(line) == line.k = "jest_summary"

IsJestTime(line) == line.k = "jest_time"

IsFailFile(line) == line.k = "fail_file"

\* _parse_jest, lines 59-116
_parse_jest(lines, summary_match) ==
    LET failed_count == IntOrZero(lines[summary_match].failed)
        passed_count == IntOrZero(lines[summary_match].passed)
        total == IntOrZero(lines[summary_match].total)
        time_match == FirstOf(lines, IsJestTime)
        duration == IF time_match = 0 THEN [ok |-> TRUE, value |-> 0]
                    ELSE float(lines[time_match].duration)
        last_fail == LastOf(lines, IsFailFile)
        current_file == IF last_fail = 0 THEN <<>>
                        ELSE <<lines[last_fail].file>>
    IN  IF ~duration.ok THEN Raised("ValueError")
        ELSE TestResult(failed_count = 0, IF failed_count > 0 THEN 1 ELSE 0,
                        lines, total, passed_count, failed_count,
                        JestFailures(lines, 1, current_file), duration.value)

\* MOCHA_ERROR_RE, line 21, searched in the chunk after a title: "^\s+"
\* needs white space before the error name, and the newline that starts the
\* chunk is white space, so an unindented error line counts when it is the
\* line right after the title
MochaError(lines, i) ==
    IF i < Len(lines) /\ lines[i + 1].k = "other"
       /\ Len(lines[i + 1].text) > 1
       /\ lines[i + 1].text[1] \in {"AssertionError", "Error", "TypeError",
                                    "ReferenceError"}
    THEN lines[i + 1].text ELSE <<>>

\* lines 126-144
RECURSIVE MochaFailures(_, _)
MochaFailures(lines, i) ==
    IF i > Len(lines) THEN <<>>
    ELSE (IF lines[i].k = "mocha_fail_title"
          THEN <<ParsedFailure(<<lines[i].name>>, <<>>, NoLineNumber,
                               MochaError(lines, i), Chunk(lines, i))>>
          ELSE <<>>)
         \o MochaFailures(lines, i + 1)

IsMochaPassing(line) == line.k = "mocha_count" /\ line.what = "passing"

IsMochaFailing(line) == line.k = "mocha_count" /\ line.what = "failing"

\* _parse_mocha, lines 119-154
_parse_mocha(lines, pass_match, fail_match) ==
    LET passed_count == IF pass_match = 0 THEN 0 ELSE int(lines[pass_match].n)
        failed_count == IF fail_match = 0 THEN 0 ELSE int(lines[fail_match].n)
    IN  TestResult(failed_count = 0, IF failed_count > 0 THEN 1 ELSE 0, lines,
                   passed_count + failed_count, passed_count, failed_count,
                   MochaFailures(lines, 1), 0)

\* a fallback that takes output without a summary for a failed run
NpmFallbackFails(lines) ==
    TestResult(FALSE, 1, lines, 0, 0, 1,
               <<ParsedFailure(<<"<unknown>">>, <<>>, NoLineNumber,
                               NpmRaw(lines), NpmRaw(lines))>>, 0)

\* lines 38-56: no summary, only the failure words
NpmFallback(lines) ==
    LET raw == NpmRaw(lines)
        failed == HasWord(raw, "FAIL") \/ HasWord(raw, "ERR!")
                  \/ \E i \in 1..Len(raw) :
                        raw[i] \in {"Error", "AssertionError", "TypeError",
                                    "ReferenceError"}
    IN  TestResult(~failed, IF failed THEN 1 ELSE 0, lines, 0, 0,
                   IF failed THEN 1 ELSE 0,
                   IF failed
                   THEN <<ParsedFailure(<<"<unknown>">>, <<>>, NoLineNumber,
                                        raw, raw)>>
                   ELSE <<>>, 0)

\* npm_parser.parse, lines 24-56
parse_npm(lines) ==
    LET jest_match == FirstOf(lines, IsJestSummary)
        mocha_pass == FirstOf(lines, IsMochaPassing)
        mocha_fail == FirstOf(lines, IsMochaFailing)
    IN  IF jest_match # 0 THEN _parse_jest(lines, jest_match)
        ELSE IF mocha_pass # 0 \/ mocha_fail # 0
        THEN _parse_mocha(lines, mocha_pass, mocha_fail)
        ELSE NpmFallback(lines)

(***************************************************************************)
(* cargo test output lines.                                                *)
(***************************************************************************)

\* "test result: FAILED. 1 passed; 1 failed; 0 ignored; ...": SUMMARY_RE
CargoSummary(status, passed, failed, ignored) ==
    [k |-> "cargo_summary", status |-> status, passed |-> passed,
     failed |-> failed, ignored |-> ignored]

\* "test tests::test_b ... FAILED": TEST_FAIL_RE, line 18, or "... ok"
CargoTest(name, outcome) ==
    [k |-> "cargo_test", name |-> name, outcome |-> outcome]

\* "thread 'tests::test_b' panicked at 'boom', src/lib.rs:10:5"
Panicked(name, msg, file, line) ==
    [k |-> "panicked", name |-> name, msg |-> msg, file |-> file,
     line |-> line]

\* "thread 'tests::test_b' panicked at src/lib.rs:10:5:", the newer format,
\* whose message is on the line after
PanickedAlt(name, file, line) ==
    [k |-> "panicked_alt", name |-> name, file |-> file, line |-> line]

\* the text of a panic line before the ":<line>" of its location
PanicPrefix(line) ==
    <<"thread", " ", "'", line.name, "'", " ", "panicked", " ", "at", " ">>
    \o (IF line.k = "panicked" THEN <<"'", line.msg, "'", ",", " ">> ELSE <<>>)
    \o <<line.file>>

\* the location of a newer panic line with the colon that ends the line
AltLocation(line) == <<line.file, ":", line.line, ":", "5", ":">>

CargoLineText(line) ==
    CASE line.k = "cargo_summary" ->
           <<"test", " ", "result", ":", " ", line.status, ".", " ",
             line.passed, " ", "passed", ";", " ", line.failed, " ",
             "failed", ";", " ", line.ignored, " ", "ignored", ";">>
      [] line.k = "cargo_test" ->
           <<"test", " ", line.name, " ", "...", " ", line.outcome>>
      [] line.k = "panicked" ->
           PanicPrefix(line) \o <<":", line.line, ":", "5">>
      [] line.k = "panicked_alt" ->
           PanicPrefix(line) \o <<":", line.line, ":", "5", ":">>
      [] line.k = "other" -> line.text

IsPanic(line) == line.k \in {"panicked", "panicked_alt"}

\* lines 45-65, PANICKED_RE.finditer.  On a line of the older format the
\* pattern matches within the line.  On a line of the newer format the only
\* white space after "at" is the newline, so the pattern matches only when
\* the next line has a ":<digits>", that is when it is a panic line too: the
\* message is then the location of the first line, the file the text of the
\* second up to its line number, and the second line is used up.
RECURSIVE PanickedFailures(_, _)
PanickedFailures(lines, i) ==
    IF i > Len(lines) THEN <<>>
    ELSE IF lines[i].k = "panicked"
    THEN <<ParsedFailure(<<lines[i].name>>, <<lines[i].file>>,
                         int(lines[i].line), <<lines[i].msg>>, <<>>)>>
         \o PanickedFailures(lines, i + 1)
    ELSE IF lines[i].k = "panicked_alt" /\ i < Len(lines)
            /\ IsPanic(lines[i + 1])
    THEN <<ParsedFailure(<<lines[i].name>>, PanicPrefix(lines[i + 1]),
                         int(lines[i + 1].line), AltLocation(lines[i]),
                         <<>>)>>
         \o PanickedFailures(lines, i + 2)
    ELSE PanickedFailures(lines, i + 1)

\* lines 68-82, PANICKED_ALT_RE.finditer: a line of the newer format and
\* the line after it, which is the message
RECURSIVE PanickedAltFailures(_, _)
PanickedAltFailures(lines, i) ==
    IF i > Len(lines) THEN <<>>
    ELSE IF lines[i].k = "panicked_alt" /\ i < Len(lines)
    THEN <<ParsedFailure(<<lines[i].name>>, <<lines[i].file>>,
                         int(lines[i].line), CargoLineText(lines[i + 1]),
                         <<>>)>>
         \o PanickedAltFailures(lines, i + 2)
    ELSE PanickedAltFailures(lines, i + 1)

TestFailedMessage ==
    <<"Test", " ", "failed", " ", "(", "see", " ", "raw", " ", "output", ")">>

\* lines 85-94, TEST_FAIL_RE.finditer
RECURSIVE TestFailFailures(_)
TestFailFailures(lines) ==
    IF lines = <<>> THEN <<>>
    ELSE (IF Head(lines).k = "cargo_test" /\ Head(lines).outcome = "FAILED"
          THEN <<ParsedFailure(<<Head(lines).name>>, <<>>, NoLineNumber,
                               TestFailedMessage, <<>>)>>
          ELSE <<>>)
         \o TestFailFailures(Tail(lines))

IsCargoSummary(line) == line.k = "cargo_summary"

\* raw_output.count("... ok"), raw_output.count("... FAILED"), lines 38-39
CountOutcome(lines, outcome) ==
    Cardinality({i \in 1..Len(lines) :
                    lines[i].k = "cargo_test" /\ lines[i].outcome = outcome})

\* a cargo parse that takes the failures of all three sources
parse_cargo_mixed(lines) ==
    LET summary == FirstOf(lines, IsCargoSummary)
        passed_count == IF summary # 0 THEN int(lines[summary].passed)
                        ELSE CountOutcome(lines, "ok")
        failed_count == IF summary # 0 THEN int(lines[summary].failed)
                        ELSE CountOutcome(lines, "FAILED")
        ignored == IF summary # 0 THEN int(lines[summary].ignored) ELSE 0
    IN  TestResult(failed_count = 0, 0, lines,
                   passed_count + failed_count + ignored, passed_count,
                   failed_count,
                   PanickedFailures(lines, 1) \o PanickedAltFailures(lines, 1)
                   \o TestFailFailures(lines), 0)

\* cargo_parser.parse, lines 26-104
parse_cargo(lines) ==
    LET summary == FirstOf(lines, IsCargoSummary)
        passed_count == IF summary # 0 THEN int(lines[summary].passed)
                        ELSE CountOutcome(lines, "ok")
        failed_count == IF summary # 0 THEN int(lines[summary].failed)
                        ELSE CountOutcome(lines, "FAILED")
        ignored == IF summary # 0 THEN int(lines[summary].ignored) ELSE 0
        f1 == PanickedFailures(lines, 1)
        f2 == IF f1 = <<>> THEN PanickedAltFailures(lines, 1) ELSE f1
        failures_ == IF f2 = <<>> /\ failed_count > 0
                     THEN TestFailFailures(lines) ELSE f2
    IN  TestResult(failed_count = 0, 0, lines,
                   passed_count + failed_count + ignored, passed_count,
                   failed_count, failures_, 0)

(***************************************************************************)
(* run_tests (detector.py lines 89-146) on the output of one test run.     *)
(***************************************************************************)

MaxLines == 3

Valid == <<"0", ".", "20">>

TwoPoints == <<"1", ".", "2", ".", "3">>

PointOnly == <<".">>

PytestLines ==
    {PytestSummary(<<Count("1", "failed"), Count("4", "passed")>>, Valid),
     PytestSummary(<<Count("5", "passed")>>, <<"0", ".", "01">>),
     PytestSummary(<<Count("2", "passed"), Count("1", "error")>>, Valid),
     PytestSummary(<<Count("2", "passed")>>, TwoPoints),
     PytestSummary(<<>>, PointOnly),
     ShortSummary,
     FailedLine("tests/test_calc.py", "test_divide", FAssert33),
     ErrorLine("tests/test_calc.py", "test_add", <<>>),
     CollectLine("tests/test_b.py"),
     TestLine("tests/test_calc.py", "test_divide", "PASSED"),
     TestLine("tests/test_calc.py", "test_add", "FAILED"),
     Section("test_divide"),
     Section("test_add"),
     TracebackFile("tests/test_calc.py", "12", <<"AssertionError">>),
     Other(FPlain)}

NpmLines ==
    {JestSummary("1", "2", "3"), JestSummary("", "3", "3"),
     JestTime(<<"1", ".", "5">>), JestTime(TwoPoints), JestTime(PointOnly),
     FailFile("src/app.test.js"), JestTestFail("adds"),
     MochaCount("2", "passing"), MochaCount("1", "failing"),
     MochaFailTitle("adds"),
     Other(<<"npm", " ", "ERR!", " ", "Test", " ", "failed">>),
     Other(<<"Error", ":", " ", "boom">>), Other(FPlain)}

CargoLines ==
    {CargoSummary("ok", "2", "0", "1"), CargoSummary("FAILED", "1", "1", "0"),
     CargoTest("tests::test_a", "ok"), CargoTest("tests::test_b", "FAILED"),
     Panicked("tests::test_b", "boom", "src/lib.rs", "10"),
     PanickedAlt("tests::test_b", "src/lib.rs", "20"),
     Other(FPlain)}

\* lines 11-14
Ecosystems == {"python", "node", "rust"}

\* the run of one failing test: the traceback of test_divide, the short
\* summary with its FAILED line, and the summary line
MaxTraceback == 2

BlockLines ==
    {Other(FAssertErr), Other(FModFoo), Other(FPlain),
     TracebackFile("tests/test_calc.py", "12", <<"AssertionError">>)}

DivideOutputs ==
    {<<Section("test_divide")>> \o block
     \o <<ShortSummary,
          FailedLine("tests/test_calc.py", "test_divide", FAssert33),
          PytestSummary(<<Count("1", "failed"), Count("4", "passed")>>,
                        Valid)>> :
        block \in SeqsUpTo(BlockLines, MaxTraceback)}

\* a run whose test files fail to load: one "ERROR collecting" line for
\* each, files possibly repeated, and a summary line that counts errors
MaxCollectLines == 7

CollectFiles ==
    <<"tests/test_1.py", "tests/test_2.py", "tests/test_3.py",
      "tests/test_4.py", "tests/test_5.py", "tests/test_6.py">>

\* the sequences of n file numbers from lo on that never decrease
RECURSIVE NonDecreasing(_, _)
NonDecreasing(n, lo) ==
    IF n = 0 THEN {<<>>}
    ELSE UNION {{<<k>> \o g : g \in NonDecreasing(n - 1, k)} :
                   k \in lo..Len(CollectFiles)}

CollectionOutputs ==
    {[i \in 1..Len(f) |-> CollectLine(CollectFiles[f[i]])]
     \o <<PytestSummary(<<Count("2", "error")>>, Valid)>> :
        f \in UNION {NonDecreasing(n, 1) : n \in 0..MaxCollectLines}}

Outputs(eco) ==
    CASE eco = "python" ->
           SeqsUpTo(PytestLines, MaxLines) \cup DivideOutputs
           \cup CollectionOutputs
      [] eco = "node" -> SeqsUpTo(NpmLines, MaxLines)
      [] eco = "rust" -> SeqsUpTo(CargoLines, MaxLines)

ReturnCodes == {0, 1}

\* time.time() - start, in hundredths of a second
Elapsed == {3, 150}

TimeoutDuration == 12000

NoProc == [pending |-> TRUE]

NoResult == [pending |-> TRUE]

\* lines 134-140
parsers(eco, lines) ==
    CASE eco = "python" -> parse_pytest(lines)
      [] eco = "node" -> parse_npm(lines)
      [] eco = "rust" -> parse_cargo(lines)

InitRunTests ==
    /\ pc = "running"
    /\ ecosystem \in Ecosystems
    /\ proc = NoProc
    /\ result = NoResult
    /\ args = None /\ calls = <<>> /\ state_file = None
    /\ verify_result = None
    /\ VerifierIdle
    /\ ClassifierIdle
    /\ CopilotIdle

\* lines 106-122: the result of a run that timed out
TimeoutResult ==
    TestResult(FALSE, -1, <<Other(FTimeout \o <<".">>)>>, 0, 0, 0,
               <<ParsedFailure(<<"<timeout>">>, <<>>, NoLineNumber, FTimeout,
                               <<>>)>>,
               TimeoutDuration)

\* lines 105-123: the run outlives its 120 seconds
TimeoutExpired ==
    /\ pc = "running"
    /\ result' = TimeoutResult
    /\ pc' = "returned"
    /\ UNCHANGED <<ecosystem, proc>>
    /\ UNCHANGED <<verifierVars, classifierVars, copilotVars, sessionVars>>

\* lines 124-128: the test command is not installed
CommandNotFound ==
    /\ pc = "running"
    /\ result' = Raised("DetectionError")
    /\ pc' = "raised"
    /\ UNCHANGED <<ecosystem, proc>>
    /\ UNCHANGED <<verifierVars, classifierVars, copilotVars, sessionVars>>

\* lines 98-104, 130-131: the run ends with an exit code and its output
RunCompletes ==
    /\ pc = "running"
    /\ \E returncode \in ReturnCodes, lines \in Outputs(ecosystem) :
          proc' = [returncode |-> returncode, output |-> lines]
    /\ pc' = "parsing"
    /\ UNCHANGED <<ecosystem, result>>
    /\ UNCHANGED <<verifierVars, classifierVars, copilotVars, sessionVars>>

\* line 140: the parser of the ecosystem; what it raises leaves run_tests
ParseOutput ==
    /\ pc = "parsing"
    /\ result' = parsers(ecosystem, proc.output)
    /\ pc' = IF "raised" \in DOMAIN result' THEN "raised" ELSE "parsed"
    /\ UNCHANGED <<ecosystem, proc>>
    /\ UNCHANGED <<verifierVars, classifierVars, copilotVars, sessionVars>>

\* lines 141-144
Overwrite(returncode, elapsed, r) ==
    [r EXCEPT !.exit_code = returncode, !.duration_seconds = elapsed,
              !.passed = returncode = 0 /\ r.failed_count = 0]

\* lines 141-146
ReturnResult ==
    /\ pc = "parsed"
    /\ \E elapsed \in Elapsed :
          result' = Overwrite(proc.returncode, elapsed, result)
    /\ pc' = "returned"
    /\ UNCHANGED <<ecosystem, proc>>
    /\ UNCHANGED <<verifierVars, classifierVars, copilotVars, sessionVars>>

NextRunTests ==
    \/ TimeoutExpired
    \/ CommandNotFound
    \/ RunCompletes
    \/ ParseOutput
    \/ ReturnResult

SpecRunTests == InitRunTests /\ [][NextRunTests]_vars

(***************************************************************************)
(* The run command (cli.py lines 18-94).  Each call that _cmd_run makes is *)
(* one step and is logged in calls with what it returned or raised; pc is  *)
(* the place the command has reached.  result is the first test run,       *)
(* fixed the run that verify makes, raw_output what the assistant answers  *)
(* when it is asked.                                                       *)
(***************************************************************************)

\* one call of subprocess.run in run_tests
Run(kind, returncode, lines, elapsed) ==
    [kind |-> kind, returncode |-> returncode, lines |-> lines,
     elapsed |-> elapsed]

\* the outputs of the test command: the runs of test_divide, a passing
\* run, no output, a summary line with a malformed duration, and failing
\* runs of the other ecosystems
RunOutputs(eco) ==
    CASE eco = "python" ->
           DivideOutputs
           \cup {<<>>,
                 <<PytestSummary(<<Count("5", "passed")>>, <<"0", ".", "01">>)>>,
                 <<PytestSummary(<<Count("2", "passed")>>, TwoPoints)>>,
                 <<TestLine("tests/test_calc.py", "test_add", "FAILED"),
                   PytestSummary(<<Count("1", "failed"), Count("4", "passed")>>,
                                 Valid)>>}
      [] eco = "node" ->
           {<<>>,
            <<JestSummary("", "3", "3")>>,
            <<FailFile("src/app.test.js"), JestTestFail("adds"),
              JestSummary("1", "2", "3")>>,
            <<MochaCount("2", "passing"), MochaCount("1", "failing"),
              MochaFailTitle("adds")>>}
      [] eco = "rust" ->
           {<<>>,
            <<CargoTest("tests::test_a", "ok"),
              CargoSummary("ok", "2", "0", "1")>>,
            <<CargoTest("tests::test_b", "FAILED"),
              Panicked("tests::test_b", "boom", "src/lib.rs", "10"),
              CargoSummary("FAILED", "1", "1", "0")>>}

Runs(eco) ==
    {Run("timeout", -1, <<>>, TimeoutDuration), Run("missing", -1, <<>>, 0)}
    \cup {Run("completed", returncode, lines, 3) :
             returncode \in ReturnCodes, lines \in RunOutputs(eco)}

\* lines 140-146: what the parser raises leaves run_tests
Completed(returncode, elapsed, r) ==
    IF "raised" \in DOMAIN r THEN r ELSE Overwrite(returncode, elapsed, r)

\* detector.run_tests, lines 105-146, as one function of what the test
\* command did
run_tests(eco, run) ==
    IF run.kind = "timeout" THEN TimeoutResult
    ELSE IF run.kind = "missing" THEN Raised("DetectionError")
    ELSE Completed(run.returncode, run.elapsed, parsers(eco, run.lines))

\* the responses the assistant gives when it is asked: none, prose, a
\* file with its new content, and a bare block
Answers ==
    {<<>>, <<Prose>>, <<Block("python", Changed)>>,
     <<FileMarker("app.py"), Block("python", Changed)>>}

\* the project the command runs in
Checkout == <<File("app.py", FileAB)>>

\* the unified diff of app.py that _make_diff gives for the new content
AppPyDiff ==
    <<"---", " ", "a/", "app.py", "+++", " ", "b/", "app.py",
      "@@", " ", "-", "1", ",", "2", " ", "+", "1", ",", "2", " ", "@@",
      " ", "a", NL, "-", "b", NL, "+", "c", NL>>

\* copilot.py line 50: what _parse_response extracts from each response,
\* tabulated; the file with its marker is found by the first strategy,
\* the bare block by the fuzzy match, prose gives nothing
Extracted ==
    [raw \in Answers |->
        IF raw \in {<<Block("python", Changed)>>,
                    <<FileMarker("app.py"), Block("python", Changed)>>}
        THEN <<FileChange(<<"app.py">>, FileAB, Changed, AppPyDiff)>>
        ELSE <<>>]

\* the table holds what _parse_response computes
ExtractedAsParsed ==
    \A raw \in Answers : Extracted[raw] = _parse_response(raw, Checkout)

\* copilot.generate_patch, lines 33-62, given the response of the
\* assistant and the changes that _parse_response extracts from it
generate_patch(raw, cs) ==
    IF raw = <<>> THEN CopilotError("empty response")
    ELSE IF cs = <<>> THEN CopilotError("no file changes")
    ELSE PatchResult(cs)

\* lines 30-45
VerifyResult(original_result, new_result, conf, text) ==
    [original |-> original_result, after_fix |-> new_result,
     all_passing |-> new_result.passed,
     fixed_count |-> Max(0, original_result.failed_count
                            - new_result.failed_count),
     new_failure_count |-> new_result.failed_count,
     confidence |-> conf, diff |-> text]

\* verifier.verify, lines 20-45, given the result of its run_tests
verify(original_result, new_result) ==
    VerifyResult(original_result, new_result,
                 _calculate_confidence(original_result, new_result),
                 _summary_diff(original_result, new_result))

NoVerifyResult == [pending |-> TRUE]

\* an entry of the log
Called(call, returned) == [call |-> call, returned |-> returned]

InitRun ==
    /\ pc = "start"
    /\ args \in [dry_run : BOOLEAN, no_confirm : BOOLEAN]
    /\ calls = <<>>
    /\ ecosystem = None
    /\ proc = NoProc
    /\ result = NoResult
    /\ failures = <<>>
    /\ classified = <<>>
    /\ raw_output \in Answers
    /\ project = Checkout
    /\ changes = <<>>
    /\ patch = NoPatch
    /\ VerifierIdle
    /\ verify_result = NoVerifyResult
    /\ state_file = None

\* cli.py lines 24-30: detect returns an ecosystem or raises
Detect ==
    /\ pc = "start"
    /\ \/ \E eco \in Ecosystems :
             /\ ecosystem' = eco
             /\ calls' = Append(calls, Called("detect", eco))
             /\ pc' = "detected"
       \/ /\ ecosystem' = ecosystem
          /\ calls' = Append(calls, Called("detect", "Exception"))
          /\ pc' = "exit1"
    /\ UNCHANGED <<proc, result, args, state_file, verify_result>>
    /\ UNCHANGED <<verifierVars, classifierVars, copilotVars>>

\* cli.py line 34: what run_tests raises is not caught
RunTests ==
    /\ pc = "detected"
    /\ \E run \in Runs(ecosystem) :
          \E r \in {run_tests(ecosystem, run)} :
             /\ result' = r
             /\ IF "raised" \in DOMAIN r
                THEN /\ calls' = Append(calls, Called("run_tests", r.raised))
                     /\ pc' = "traceback"
                ELSE /\ calls' = Append(calls,
                            Called("run_tests",
                                   IF r.passed THEN "passed"
                                   ELSE "not passed"))
                     /\ pc' = "returned"
    /\ UNCHANGED <<ecosystem, proc, args, state_file, verify_result>>
    /\ UNCHANGED <<verifierVars, classifierVars, copilotVars>>

\* cli.py lines 36-38: nothing to fix
AllTestsPass ==
    /\ pc = "returned"
    /\ result.passed
    /\ pc' = "all_pass"
    /\ UNCHANGED <<detectorVars, verifierVars, classifierVars, copilotVars>>
    /\ UNCHANGED sessionVars

\* cli.py lines 40-45: the failures of the run are classified
ClassifyFailures ==
    /\ pc = "returned"
    /\ ~result.passed
    /\ failures' = result.failures
    /\ classified' = classify(result.failures)
    /\ calls' = Append(calls, Called("classify", "classifications"))
    /\ pc' = "classifications"
    /\ UNCHANGED <<args, state_file, verify_result>>
    /\ UNCHANGED <<detectorVars, verifierVars, copilotVars>>

\* cli.py lines 47-49: --dry-run stops here
DryRun ==
    /\ pc = "classifications"
    /\ args.dry_run
    /\ pc' = "dry_run"
    /\ UNCHANGED <<detectorVars, verifierVars, classifierVars, copilotVars>>
    /\ UNCHANGED sessionVars

\* cli.py lines 52-62, copilot.py lines 85-126: gh is missing or times
\* out, and generate_patch raises CopilotError
AskCopilotFails ==
    /\ pc = "classifications"
    /\ ~args.dry_run
    /\ patch' = CopilotError("gh missing or timed out")
    /\ calls' = Append(calls, Called("generate_patch", "CopilotError"))
    /\ pc' = "raised"
    /\ UNCHANGED <<raw_output, project, changes, args, state_file, verify_result>>
    /\ UNCHANGED <<detectorVars, verifierVars, classifierVars>>

\* cli.py lines 52-62: generate_patch returns a PatchResult or raises
\* CopilotError
AskCopilot ==
    /\ pc = "classifications"
    /\ ~args.dry_run
    /\ \E p \in {generate_patch(raw_output, Extracted[raw_output])} :
          /\ patch' = p
          /\ IF "error" \in DOMAIN p
             THEN /\ changes' = <<>>
                  /\ calls' = Append(calls, Called("generate_patch",
                                                   "CopilotError"))
                  /\ pc' = "raised"
             ELSE /\ changes' = p.changes
                  /\ calls' = Append(calls, Called("generate_patch",
                                                   "PatchResult"))
                  /\ pc' = "patched"
    /\ UNCHANGED <<raw_output, project, args, state_file, verify_result>>
    /\ UNCHANGED <<detectorVars, verifierVars, classifierVars>>

\* a confirmation step that goes on whatever the answer is
ConfirmAnyAnswer ==
    /\ pc = "preview"
    /\ IF args.no_confirm
       THEN calls' = calls
       ELSE \E answer \in {"True", "False"} :
               calls' = Append(calls, Called("confirm_apply", answer))
    /\ pc' = "confirmed"
    /\ UNCHANGED <<args, state_file, verify_result>>
    /\ UNCHANGED <<detectorVars, verifierVars, classifierVars, copilotVars>>

\* cli.py lines 67-70: confirm_apply is asked unless --no-confirm is given
Confirm ==
    /\ pc = "preview"
    /\ IF args.no_confirm
       THEN calls' = calls /\ pc' = "confirmed"
       ELSE \E answer \in {"True", "False"} :
               /\ calls' = Append(calls, Called("confirm_apply", answer))
               /\ pc' = IF answer = "True" THEN "confirmed" ELSE "aborted"
    /\ UNCHANGED <<args, state_file, verify_result>>
    /\ UNCHANGED <<detectorVars, verifierVars, classifierVars, copilotVars>>

\* cli.py lines 73-79: apply_patch returns branch_info or raises PatchError
CallApplyPatch ==
    /\ pc = "confirmed"
    /\ \E returned \in {"branch_info", "PatchError"} :
          /\ calls' = Append(calls, Called("apply_patch", returned))
          /\ pc' = IF returned = "branch_info" THEN "applied" ELSE "exit1"
    /\ UNCHANGED <<args, state_file, verify_result>>
    /\ UNCHANGED <<detectorVars, verifierVars, classifierVars, copilotVars>>

\* cli.py lines 82-84: verify runs the tests again; what its run_tests
\* raises is not caught
Verify ==
    /\ pc = "applied"
    /\ \E run \in Runs(ecosystem) :
          \E r \in {run_tests(ecosystem, run)} :
             IF "raised" \in DOMAIN r
             THEN /\ calls' = Append(calls, Called("verify", r.raised))
                  /\ pc' = "traceback"
                  /\ UNCHANGED <<verifierVars, verify_result>>
             ELSE \E v \in {verify(result, r)} :
                     /\ original' = v.original
                     /\ fixed' = v.after_fix
                     /\ confidence' = v.confidence
                     /\ diff' = v.diff
                     /\ verify_result' = v
                     /\ calls' = Append(calls, Called("verify",
                                                      "VerifyResult"))
                     /\ pc' = "verified"
    /\ UNCHANGED <<args, state_file>>
    /\ UNCHANGED <<detectorVars, classifierVars, copilotVars>>

\* cli.py lines 87-94
GenerateReport ==
    /\ pc = "verified"
    /\ calls' = Append(calls, Called("generate_report", "pr_info"))
    /\ pc' = "done"
    /\ UNCHANGED <<args, state_file, verify_result>>
    /\ UNCHANGED <<detectorVars, verifierVars, classifierVars, copilotVars>>

NextRun ==
    \/ Detect
    \/ RunTests
    \/ AllTestsPass
    \/ ClassifyFailures
    \/ DryRun
    \/ AskCopilotFails
    \/ AskCopilot
    \/ ExitOnCopilotError
    \/ ShowPatchPreview
    \/ Confirm
    \/ CallApplyPatch
    \/ Verify
    \/ GenerateReport

SpecRun == InitRun /\ [][NextRun]_vars

(***************************************************************************)
(* Rollback (state.py).  The state file is absent, holds something that    *)
(* load_state cannot turn into a RollbackState, or holds a RollbackState.  *)
(* Each call of save_state and of rollback is logged in calls with the     *)
(* file before and after it, what the call did, and the git commands it    *)
(* ran.                                                                    *)
(***************************************************************************)

MaxCalls == 3

Absent == [kind |-> "absent"]

\* a file that is not JSON or lacks fields of RollbackState, lines 36-40
Unreadable == [kind |-> "unreadable"]

\* lines 16-23, the fields that rollback reads
RollbackState(project_path, original_branch, fixforward_branch, stash_ref) ==
    [kind |-> "state", project_path |-> project_path,
     original_branch |-> original_branch,
     fixforward_branch |-> fixforward_branch, stash_ref |-> stash_ref]

ProjectPaths == {"/work/a", "/work/a/", "/work/b"}

\* Path(p).resolve() drops the trailing separator
resolve(p) == IF p = "/work/a/" THEN "/work/a" ELSE p

RollbackStates ==
    {RollbackState(p, "main", "fixforward/fix", s) :
        p \in ProjectPaths, s \in {None, "", "stash@{0}"}}

\* load_state, lines 32-40: None unless the file holds a RollbackState
load_state(file) == IF file.kind = "state" THEN file ELSE Absent

\* a clear_state that leaves the file
clear_state_keeps(file) == file

\* clear_state, lines 43-46
clear_state(file) == Absent

\* _git, lines 70-79: one git command and whether it exited with 0
Git(cmd, ok) == [cmd |-> cmd, ok |-> ok]

\* what a call of rollback did
Outcome(outcome, git, file) == [outcome |-> outcome, git |-> git, file |-> file]

\* the git commands after a checkout that worked, lines 84-95; stash pop
\* runs when stash_ref is neither None nor empty
AfterCheckout(state, delete_ok, pop_ok) ==
    <<Git("checkout", TRUE), Git("branch -D", delete_ok)>>
    \o (IF state.stash_ref \notin {None, ""} THEN <<Git("stash pop", pop_ok)>> ELSE <<>>)

\* a rollback that clears the state before it checks out the branch
rollback_clears_first(file, project_path, checkout_ok, delete_ok, pop_ok) ==
    LET state == load_state(file)
    IN  IF state = Absent THEN Outcome("no_state", <<>>, file)
        ELSE IF resolve(project_path) # resolve(state.project_path)
        THEN Outcome("wrong_project", <<>>, file)
        ELSE IF ~checkout_ok
        THEN Outcome("git_failed", <<Git("checkout", FALSE)>>,
                     clear_state(file))
        ELSE Outcome("returned", AfterCheckout(state, delete_ok, pop_ok),
                     clear_state(file))

\* rollback, lines 49-103: RollbackError when there is no state, when the
\* state is of another project and when the checkout fails; a failed
\* branch -D or stash pop is passed over
rollback(file, project_path, checkout_ok, delete_ok, pop_ok) ==
    LET state == load_state(file)
    IN  IF state = Absent THEN Outcome("no_state", <<>>, file)
        ELSE IF resolve(project_path) # resolve(state.project_path)
        THEN Outcome("wrong_project", <<>>, file)
        ELSE IF ~checkout_ok
        THEN Outcome("git_failed", <<Git("checkout", FALSE)>>, file)
        ELSE Outcome("returned", AfterCheckout(state, delete_ok, pop_ok),
                     clear_state(file))

\* an entry of the log
Call(op, path, before, did) ==
    [op |-> op, path |-> path, before |-> before, outcome |-> did.outcome,
     git |-> did.git, after |-> did.file]

InitRollback ==
    /\ pc = "shell"
    /\ state_file \in {Absent, Unreadable} \cup RollbackStates
    /\ calls = <<>>
    /\ args = None
    /\ verify_result = None
    /\ ecosystem = None /\ proc = None /\ result = None
    /\ VerifierIdle
    /\ ClassifierIdle
    /\ CopilotIdle

\* save_state, lines 26-29: a patch was applied and its state written
SaveState ==
    /\ Len(calls) < MaxCalls
    /\ \E state \in RollbackStates :
          /\ state_file' = state
          /\ calls' = Append(calls, Call("save_state", state.project_path,
                                         state_file,
                                         Outcome("saved", <<>>, state)))
    /\ UNCHANGED <<pc, args, verify_result>>
    /\ UNCHANGED <<verifierVars, classifierVars, copilotVars, detectorVars>>

\* cli.py lines 151-161: the rollback command in a project directory
Rollback ==
    /\ Len(calls) < MaxCalls
    /\ \E path \in ProjectPaths, checkout_ok, delete_ok, pop_ok \in BOOLEAN :
          LET did == rollback(state_file, path, checkout_ok, delete_ok, pop_ok)
          IN  /\ state_file' = did.file
              /\ calls' = Append(calls, Call("rollback", path, state_file, did))
    /\ UNCHANGED <<pc, args, verify_result>>
    /\ UNCHANGED <<verifierVars, classifierVars, copilotVars, detectorVars>>

NextRollback == SaveState \/ Rollback

SpecRollback == InitRollback /\ [][NextRollback]_vars

(***************************************************************************)
(* Properties of the verifier.                                             *)
(***************************************************************************)
Scored == pc \in {"diffing", "verified"}

BonusDue == fixed.total_tests >= original.total_tests

\* C1: for every pair of summaries with non-negative counts and any value of
\* after.passed, the score lies in the closed range 0.00 .. 1.00.
C1_ScoreInRange == Scored => confidence \in 0..100

\* C1 witness: a passing "after" summary with more failures than before, whose
\* penalty would take the score below zero, has been scored.
C1_Witness ==
    /\ Scored
    /\ fixed.passed
    /\ fixed.failed_count >= original.failed_count + 5
    /\ confidence = 0

\* C2: for a fixed "before" summary and a fixed after.total_tests, among
\* "after" summaries in which passed implies failed_count = 0, a summary with
\* fewer failures never scores lower than one with more failures.
C2_Monotone ==
    (Scored /\ (fixed.passed => fixed.failed_count = 0)) =>
        \A f2 \in (fixed.failed_count + 1)..MaxFailed :
            confidence >=
                _calculate_confidence(original,
                    [fixed EXCEPT !.failed_count = f2, !.passed = FALSE])

\* C2 witness: a non-passing summary with fewer failures than before scores
\* strictly higher than the same summary with one more failure.
C2_Witness ==
    /\ Scored
    /\ ~fixed.passed
    /\ fixed.failed_count + 1 < original.failed_count
    /\ confidence >
           _calculate_confidence(original,
               [fixed EXCEPT !.failed_count = fixed.failed_count + 1])

\* C3: when after.passed is true and after.failed_count is not above
\* before.failed_count, the score is exactly 0.95 if after.total_tests >=
\* before.total_tests and exactly 0.90 otherwise; no non-passing "after"
\* summary scores as high as 0.90.
C3_PassingScore ==
    Scored =>
        /\ (fixed.passed /\ fixed.failed_count <= original.failed_count) =>
               confidence = (IF BonusDue THEN 95 ELSE 90)
        /\ ~fixed.passed => confidence < 90

\* C3 witness: a passing summary whose total test count dropped has been
\* scored (0.90, no bonus).
C3_Witness ==
    /\ Scored
    /\ fixed.passed
    /\ fixed.failed_count = 0
    /\ fixed.total_tests < original.total_tests
    /\ confidence = 90

SomeFixed == ~fixed.passed /\ fixed.failed_count < original.failed_count

\* C4 as stated: when after.passed is false and after.failed_count <
\* before.failed_count, the score equals round(0.30 + 0.50 * (before - after)
\* / before, 2), plus 0.05 when after.total_tests >= before.total_tests.
C4_RoundThenBonus ==
    (Scored /\ SomeFixed) =>
        confidence =
            Round2(BaseScore(original, fixed)) + (IF BonusDue THEN 5 ELSE 0)

\* C4 amended: when after.passed is false and after.failed_count <
\* before.failed_count, the score is 0.30 + 0.50 * (before - after) / before,
\* plus 0.05 when after.total_tests >= before.total_tests, the sum rounded to
\* the nearest hundredth (the bonus is added before rounding); no regression
\* penalty is applied.
C4_BonusThenRound ==
    (Scored /\ SomeFixed) =>
        LET o == original.failed_count
            exact == 30 * o + 50 * (o - fixed.failed_count)
                     + (IF BonusDue THEN 5 * o ELSE 0)
        IN  2 * Abs(confidence * o - exact) <= o

\* C4 witness: 17 of 20 failures fixed with the test count maintained: the
\* exact sum 0.775 is a tie, scored 0.78, where rounding 0.725 first and
\* adding the bonus afterwards would give 0.77.
C4_Witness ==
    /\ Scored
    /\ SomeFixed
    /\ original.failed_count = 20
    /\ fixed.failed_count = 3
    /\ BonusDue
    /\ confidence = 78

\* C5: when after.passed is false and after.failed_count >
\* before.failed_count, the penalised base score is clamped at 0.0 before the
\* bonus, so the score is 0.05 if after.total_tests >= before.total_tests and
\* 0.00 otherwise; when the failure counts are equal (not passing) the score
\* is 0.15 or 0.10 by the same bonus rule.
C5_RegressionScore ==
    (Scored /\ ~fixed.passed) =>
        /\ fixed.failed_count > original.failed_count =>
               confidence = (IF BonusDue THEN 5 ELSE 0)
        /\ fixed.failed_count = original.failed_count =>
               confidence = (IF BonusDue THEN 15 ELSE 10)

\* C5 witness: a regression by several failures with the test count
\* maintained has been scored 0.05.
C5_Witness ==
    /\ Scored
    /\ ~fixed.passed
    /\ fixed.failed_count >= original.failed_count + 2
    /\ BonusDue
    /\ confidence = 5

\* C6: the diff has the Before and After count lines and exactly one delta
\* line chosen by the sign of before.failed_count - after.failed_count:
\* "Fixed" when positive, "New failures" when negative, "No change" when
\* zero, with N the absolute difference.
C6_DeltaLine ==
    pc = "verified" =>
        LET d == original.failed_count - fixed.failed_count
        IN  /\ Len(diff) = 3
            /\ diff[1] = <<"Before: ", original.failed_count, " failed / ",
                           original.passed_count, " passed / ",
                           original.total_tests, " total">>
            /\ diff[2] = <<"After:  ", fixed.failed_count, " failed / ",
                           fixed.passed_count, " passed / ",
                           fixed.total_tests, " total">>
            /\ d > 0 => diff[3] = <<"Fixed:  ", d, " test(s)">>
            /\ d < 0 => diff[3] = <<"New failures: ", 0 - d, " test(s)">>
            /\ d = 0 => diff[3] = <<"No change in failure count.">>

\* C6 witness: a diff reporting new failures has been produced.
C6_Witness ==
    /\ pc = "verified"
    /\ fixed.failed_count > original.failed_count + 1
    /\ diff[3][1] = "New failures: "

(***************************************************************************)
(* Properties of the classifier.                                           *)
(***************************************************************************)
Classified == pc = "classified"

\* the FailureCategory values (lines 11-19) with the base confidence the
\* table gives each, in table order, and the catch-all
CategoryOrder ==
    <<"syntax_error", "dependency", "env_mismatch", "api_change", "lint",
      "flaky_test", "assertion">>

BaseConfidences ==
    {<<"syntax_error", 95>>, <<"dependency", 90>>, <<"env_mismatch", 80>>,
     <<"api_change", 85>>, <<"lint", 75>>, <<"flaky_test", 60>>,
     <<"assertion", 85>>, <<"unknown", 30>>}

\* the patterns of a category, and whether one of them matches a text
PatternsOf(cat) ==
    RULES[CHOOSE c \in 1..Len(RULES) : RULES[c].category = cat].patterns

MatchingPatterns(text, cat) ==
    LET folded == Fold(text)
        patterns == PatternsOf(cat)
    IN  {p \in 1..Len(patterns) : Search(folded, patterns[p].re).ok}

MatchesCategory(text, cat) == MatchingPatterns(text, cat) # {}

\* a token sequence occurs in a text at position i
OccursAt(text, toks, i) ==
    /\ i + Len(toks) - 1 <= Len(text)
    /\ SubSeq(text, i, i + Len(toks) - 1) = toks

Contains(text, toks) == \E i \in 1..Len(text) : OccursAt(text, toks, i)

\* C7: classify returns exactly one ClassifiedFailure per input failure, in
\* input order, each carrying one category of the eight-value enumeration and
\* the base confidence of that category; no failure is dropped or duplicated.
C7_OnePerFailure ==
    Classified =>
        /\ Len(classified) = Len(failures)
        /\ \A i \in 1..Len(failures) :
               /\ classified[i].failure = failures[i]
               /\ <<classified[i].category, classified[i].confidence>>
                      \in BaseConfidences

\* C7 witness: a list of two failures of different categories has been
\* classified.
C7_Witness ==
    /\ Classified
    /\ Len(failures) = 2
    /\ classified[1].category = "unknown"
    /\ classified[2].category = "syntax_error"

\* C8: the returned category is the earliest category, in the order syntax,
\* dependency, env, api, lint, flaky, assertion, that has a matching pattern,
\* and the summary is formatted from the earliest matching pattern of that
\* category; matches in later categories or later patterns have no influence.
C8_FirstMatchWins ==
    Classified =>
        \A i \in 1..Len(failures) :
            LET text == FailureText(failures[i])
                cat == classified[i].category
                k == IF cat = "unknown" THEN Len(CategoryOrder) + 1
                     ELSE CHOOSE c \in 1..Len(CategoryOrder) :
                              CategoryOrder[c] = cat
            IN  /\ \A c \in 1..(k - 1) :
                       ~MatchesCategory(text, CategoryOrder[c])
                /\ cat # "unknown" =>
                       LET hits == MatchingPatterns(text, cat)
                           rule == PatternsOf(cat)[MinOf(hits)]
                       IN  /\ hits # {}
                           /\ classified[i].summary =
                                  Format(rule.template,
                                         Groups(text, rule.re,
                                                Search(Fold(text), rule.re)))

\* C8 witness: an assertion message followed by a module-not-found traceback
\* (the later text, but the earlier category) is classified as dependency.
C8_Witness ==
    /\ Classified
    /\ failures = <<TestFailure("t1", FAssert33, FModFoo)>>
    /\ classified[1].category = "dependency"

BothDependencyAndAssertion(text) ==
    MatchesCategory(text, "dependency") /\ MatchesCategory(text, "assertion")

\* C9 as stated: a failure whose text matches both a dependency pattern and
\* an assertion pattern classifies as dependency, never as assertion.
C9_AlwaysDependency ==
    Classified =>
        \A i \in 1..Len(failures) :
            BothDependencyAndAssertion(FailureText(failures[i])) =>
                classified[i].category = "dependency"

\* C9 amended: a failure whose text matches both a dependency pattern and an
\* assertion pattern never classifies as assertion; it classifies as
\* dependency unless a syntax-error pattern also matches the text, and then
\* as syntax_error.
C9_DependencyUnlessSyntax ==
    Classified =>
        \A i \in 1..Len(failures) :
            LET text == FailureText(failures[i])
            IN  BothDependencyAndAssertion(text) =>
                    classified[i].category =
                        (IF MatchesCategory(text, "syntax_error")
                         THEN "syntax_error" ELSE "dependency")

\* C9 witness: an assertion message with a module-not-found traceback, no
\* syntax error in sight, is classified as dependency.
C9_Witness ==
    /\ Classified
    /\ Len(failures) = 1
    /\ failures[1].error_message = FAssertErr
    /\ failures[1].full_output = FModFoo
    /\ classified[1].category = "dependency"

MissingModuleFoo == <<Whole("Missing module: "), Whole("foo")>>

\* C10 as stated: any failure whose error_message or full_output contains
\* "ModuleNotFoundError: No module named 'foo'" classifies as dependency with
\* confidence 0.90 and summary "Missing module: foo", whatever else the text
\* contains.
C10_AlwaysMissingFoo ==
    Classified =>
        \A i \in 1..Len(failures) :
            (\/ Contains(failures[i].error_message, FModFoo)
             \/ Contains(failures[i].full_output, FModFoo)) =>
                /\ classified[i].category = "dependency"
                /\ classified[i].confidence = 90
                /\ classified[i].summary = MissingModuleFoo

\* the first pattern of the dependency category,
\* ModuleNotFoundError:\s*No module named '(\S+)'
ModuleNotFoundRe == PatternsOf("dependency")[1].re

\* the text's leftmost match of that pattern is an occurrence of the quoted
\* line whose closing quote is followed by white space or by nothing
FooIsFirstModule(text) ==
    \E i \in 1..Len(text) :
        /\ OccursAt(text, FModFoo, i)
        /\ \A j \in 1..(i - 1) :
               ~Match(Fold(text), ModuleNotFoundRe, j, NoGroups).ok
        /\ \/ i + Len(FModFoo) > Len(text)
           \/ text[i + Len(FModFoo)] \in Spaces

\* C10 amended: a failure whose error_message or full_output contains
\* "ModuleNotFoundError: No module named 'foo'" classifies as dependency with
\* confidence 0.90 provided no syntax-error pattern matches its text (then it
\* is syntax_error, 0.95); its summary is then "Missing module: foo" provided
\* that line is the leftmost match of the ModuleNotFoundError pattern in the
\* text and its closing quote is followed by white space or the end of the
\* text.
C10_MissingFooUnlessSyntax ==
    Classified =>
        \A i \in 1..Len(failures) :
            LET text == FailureText(failures[i])
            IN  (\/ Contains(failures[i].error_message, FModFoo)
                 \/ Contains(failures[i].full_output, FModFoo)) =>
                    IF MatchesCategory(text, "syntax_error")
                    THEN /\ classified[i].category = "syntax_error"
                         /\ classified[i].confidence = 95
                    ELSE /\ classified[i].category = "dependency"
                         /\ classified[i].confidence = 90
                         /\ FooIsFirstModule(text) =>
                                classified[i].summary = MissingModuleFoo

\* C10 witness: the quoted line in the output of a failure whose message is
\* an assertion error is classified as dependency, "Missing module: foo".
C10_Witness ==
    /\ Classified
    /\ Len(failures) = 1
    /\ failures[1].error_message = FAssert33
    /\ Contains(failures[1].full_output, FModFoo)
    /\ classified[1].category = "dependency"
    /\ classified[1].summary = MissingModuleFoo

\* the number of characters of a token sequence and of a summary
RECURSIVE TextLen(_)
TextLen(toks) ==
    IF toks = <<>> THEN 0 ELSE CharLen(Head(toks)) + TextLen(Tail(toks))

PieceLen(piece) == IF piece.keep < 0 THEN CharLen(piece.s) ELSE piece.keep

RECURSIVE SummaryLen(_)
SummaryLen(pieces) ==
    IF pieces = <<>> THEN 0 ELSE PieceLen(Head(pieces)) + SummaryLen(Tail(pieces))

\* a summary is the first n characters of a token sequence
IsCharPrefix(pieces, toks, n) ==
    /\ SummaryLen(pieces) = Min(n, TextLen(toks))
    /\ Len(pieces) <= Len(toks)
    /\ \A k \in 1..Len(pieces) :
           /\ pieces[k].s = toks[k]
           /\ k < Len(pieces) => pieces[k].keep = -1

SomePatternMatches(text) ==
    \E c \in 1..Len(CategoryOrder) : MatchesCategory(text, CategoryOrder[c])

\* C11: a failure is classified UNKNOWN exactly when no pattern of the table
\* matches its text; then the confidence is 0.30 and the summary is the first
\* 80 characters of error_message, or "Unknown error" when error_message is
\* empty.
C11_UnknownFallback ==
    Classified =>
        \A i \in 1..Len(failures) :
            LET message == failures[i].error_message
            IN  /\ (classified[i].category = "unknown")
                       <=> ~SomePatternMatches(FailureText(failures[i]))
                /\ classified[i].category = "unknown" =>
                       /\ classified[i].confidence = 30
                       /\ IF message = <<>>
                          THEN classified[i].summary = <<Whole("Unknown error")>>
                          ELSE IsCharPrefix(classified[i].summary, message, 80)

\* C11 witness: a message of more than 80 characters that no pattern matches
\* has been classified, and its summary is shorter than the message.
C11_Witness ==
    /\ Classified
    /\ Len(failures) = 1
    /\ TextLen(failures[1].error_message) > 80
    /\ classified[1].category = "unknown"
    /\ SummaryLen(classified[1].summary) = 80

(***************************************************************************)
(* Properties of the patch extraction.                                     *)
(***************************************************************************)
Parsed == pc = "parsed"

FirstNonEmpty(one, two, three) ==
    IF one # <<>> THEN one ELSE IF two # <<>> THEN two ELSE three

\* C12: the strategies run in the order FILE-marker, diff-block, fuzzy-match;
\* a later strategy adds nothing to a list an earlier one has put a
\* FileChange in, so the returned list is the yield of one strategy: the
\* first in that order whose yield is not empty.
C12_StrategyOrder ==
    /\ [](Parsed =>
             changes = FirstNonEmpty(Strategy1(raw_output, project),
                                     Strategy2(raw_output),
                                     Strategy3(raw_output, project)))
    /\ [][/\ pc = "strategy1" => pc' = "strategy2"
          /\ pc = "strategy2" => pc' = "strategy3"
          /\ pc = "strategy3" => pc' = "parsed"
          /\ pc \in {"strategy2", "strategy3"} /\ changes # <<>>
                 => changes' = changes]_vars

\* C12 witness: a response with a FILE: block and a diff block in which the
\* first two strategies found nothing and the third found a change.
C12_Witness ==
    /\ Parsed
    /\ \E i \in 1..Len(raw_output) : raw_output[i].k = "file"
    /\ \E i \in 1..Len(raw_output) :
           raw_output[i].k = "block" /\ raw_output[i].tag = "diff"
    /\ Strategy1(raw_output, project) = <<>>
    /\ Strategy2(raw_output) = <<>>
    /\ changes # <<>>

\* C13 as stated: every FileChange _parse_response returns, whichever
\* strategy made it, has modified_content.strip() different from
\* original_content.strip().
C13_ChangesDiffer ==
    Parsed =>
        \A i \in 1..Len(changes) :
            strip(changes[i].modified_content)
                # strip(changes[i].original_content)

\* the only code block of the response is a FILE: block for an existing
\* file, and its content is that file's content up to surrounding white
\* space
OnlyNoOpFileBlock ==
    \E i \in 1..(Len(raw_output) - 1) :
        /\ raw_output[i].k = "file"
        /\ raw_output[i + 1].k = "block"
        /\ \A j \in 1..Len(raw_output) :
               raw_output[j].k = "block" => j = i + 1
        /\ Exists(project, <<raw_output[i].path>>)
        /\ strip(raw_output[i + 1].content)
               = strip(ReadText(project, <<raw_output[i].path>>))

\* C14 as stated: when the only code block of the response is a FILE: block,
\* with or without a language tag, whose content equals the existing file's
\* content up to surrounding white space, _parse_response returns no
\* FileChange.
C14_NoOpSuppressed == Parsed /\ OnlyNoOpFileBlock => changes = <<>>

(***************************************************************************)
(* Applying a unified diff to a text, as patch does: the diff is read line *)
(* by line, a line being what ends at a newline; the first line starts     *)
(* with ---, the second with +++, the third with @@, and every further     *)
(* line is a context line, a removal or an addition.  The lines the diff   *)
(* keeps or removes must be the original (the diffs of this model have one *)
(* hunk that spans the file); the result is the lines it keeps or adds.    *)
(***************************************************************************)
Rejected == <<"patch: only garbage was found in the patch input">>

ApplyDiff(difftext, original_content) ==
    LET lines == splitlines(difftext)
        body == SubSeq(lines, 4, Len(lines))
        Side(prefixes) ==
            Flatten([k \in 1..Len(body) |->
                        IF body[k][1] \in prefixes
                        THEN Tail(body[k]) ELSE <<>>])
    IN  IF /\ Len(lines) >= 3
           /\ lines[1][1] = "---"
           /\ lines[2][1] = "+++"
           /\ lines[3][1] = "@@"
           /\ \A k \in 1..Len(body) : body[k][1] \in {" ", "-", "+"}
           /\ Side({" ", "-"}) = original_content
        THEN Side({" ", "+"})
        ELSE Rejected

\* C15 as stated: applying the diff of a FileChange made by strategy 1 to its
\* original_content gives its modified_content.
C15_RoundTrip ==
    pc = "strategy2" =>
        \A i \in 1..Len(changes) :
            ApplyDiff(changes[i].diff, changes[i].original_content)
                = changes[i].modified_content

\* ApplyDiff does apply the diff difflib makes of two texts that end in a
\* newline when the control lines are terminated (lineterm "\n")
ApplyDiffInverts ==
    \A a \in {FileAB, FileACD, Padded, Changed, <<>>} :
        \A b \in {FileAB, FileACD, Padded, Changed} :
            a # b =>
                ApplyDiff(Flatten(unified_diff(splitlines(a), splitlines(b),
                                               <<"a/", "f">>, <<"b/", "f">>,
                                               <<NL>>)), a) = b

NoFileChanges == CopilotError("no file changes")

\* C16: generate_patch returns a PatchResult only with at least one
\* FileChange in it; it raises the no-file-changes error only after
\* _parse_response has returned, none of the three strategies having found
\* a change; and in run a CopilotError leads to exit 1 and nowhere else, so
\* the preview, confirmation, apply and verify steps are reached only with a
\* PatchResult.
C16_NoChangesStops ==
    /\ [](/\ patch = NoFileChanges =>
                /\ pc \in {"raised", "exit1"}
                /\ Strategy1(raw_output, project) = <<>>
                /\ Strategy2(raw_output) = <<>>
                /\ Strategy3(raw_output, project) = <<>>
          /\ pc \in {"patched", "preview", "confirmed", "aborted",
                     "applied", "done"} =>
                patch = PatchResult(changes) /\ changes # <<>>)
    /\ [][/\ patch' = NoFileChanges /\ patch # NoFileChanges => pc = "parsed"
          /\ pc = "raised" => pc' = "exit1"
          /\ pc = "exit1" => pc' = "exit1"]_vars

\* C16 witness: a response with a code block in which no strategy found a
\* change has ended the run with exit 1.
C16_Witness ==
    /\ pc = "exit1"
    /\ patch = NoFileChanges
    /\ \E i \in 1..Len(raw_output) : raw_output[i].k = "block"

(***************************************************************************)
(* Properties of the parsers and of run_tests.                             *)
(***************************************************************************)

\* the parser of the ecosystem has returned a TestResult
ParserReturned == pc = "parsed"

\* the error count of the last pytest summary line of the output
SummaryErrors ==
    IF LastSummary(proc.output) = 0 THEN 0
    ELSE CountOf(proc.output[LastSummary(proc.output)].counts, "error")

\* C17: every TestResult returned by the pytest, npm (Jest, Mocha and
\* fallback) and cargo parsers has passed = (failed_count = 0); for pytest
\* the errors are part of failed_count, so that failed_count is total_tests
\* minus passed_count and a summary with errors is never a pass.
C17_PassedIffNoFailures ==
    ParserReturned =>
        /\ result.passed = (result.failed_count = 0)
        /\ ecosystem = "python" =>
              /\ result.failed_count = result.total_tests - result.passed_count
              /\ SummaryErrors > 0 => ~result.passed

\* a pytest summary with errors and no failed tests has been parsed
C17_Witness ==
    /\ ParserReturned
    /\ ecosystem = "python"
    /\ SummaryErrors > 0
    /\ CountOf(proc.output[LastSummary(proc.output)].counts, "failed") = 0
    /\ result.failed_count = SummaryErrors
    /\ ~result.passed

\* C18: every TestResult that run_tests returns, the timeout result
\* included, has passed = (failed_count = 0).
C18_ReturnedPassedIffNoFailures ==
    pc = "returned" => result.passed = (result.failed_count = 0)

\* C19: the parsers never raise, whatever the output, also when the
\* duration of a summary or time line is not a decimal number.
C19_ParsersNeverRaise ==
    ~(pc = "raised" /\ result.raised = "ValueError")

\* the output of the run has no lines
EmptyOutput ==
    /\ pc \in {"parsed", "raised"}
    /\ "output" \in DOMAIN proc
    /\ proc.output = <<>>

\* C20: each of the three parsers turns empty output into a TestResult with
\* total_tests, passed_count and failed_count 0, no failures and passed
\* true, and does not raise.
C20_EmptyOutput ==
    EmptyOutput =>
        /\ ParserReturned
        /\ result.total_tests = 0
        /\ result.passed_count = 0
        /\ result.failed_count = 0
        /\ result.failures = <<>>
        /\ result.passed

\* the npm parser has returned for empty output
C20_Witness ==
    /\ EmptyOutput
    /\ ParserReturned
    /\ ecosystem = "node"
    /\ result.passed

\* the parser of pytest has returned or raised
PytestDone ==
    /\ pc \in {"parsed", "raised"}
    /\ ecosystem = "python"
    /\ "output" \in DOMAIN proc

DivideSummary ==
    PytestSummary(<<Count("1", "failed"), Count("4", "passed")>>, Valid)

\* C21: for every pytest output with the summary line "1 failed, 4 passed
\* in 0.20s", whatever lines come before or after it, the parser returns
\* total_tests 5, failed_count 1, passed_count 4 and duration 0.20.
C21_SummaryLineCounts ==
    (PytestDone /\ \E i \in 1..Len(proc.output) :
                       proc.output[i] = DivideSummary) =>
        /\ ParserReturned
        /\ result.total_tests = 5
        /\ result.failed_count = 1
        /\ result.passed_count = 4
        /\ result.duration_seconds = 20

\* the failed count of the last pytest summary line of the output
SummaryFailed ==
    IF LastSummary(proc.output) = 0 THEN 0
    ELSE CountOf(proc.output[LastSummary(proc.output)].counts, "failed")

SeeRawOutput == <<"(", "see", " ", "raw", " ", "output", ")">>

\* the tests that a line of pytest -v reports as FAILED
FailedTestNames ==
    {proc.output[i].name :
        i \in {j \in 1..Len(proc.output) :
                  /\ proc.output[j].k = "test_line"
                  /\ proc.output[j].outcome = "FAILED"}}

\* C22: when the pytest summary counts failed tests and no line of the
\* form "FAILED <file>::<test>" is in the output, the failures hold a
\* record with the message "(see raw output)" for every test that a looser
\* "<file>::<test> FAILED" line names, so they are not empty.
C22_DegradedRecords ==
    (/\ ParserReturned
     /\ ecosystem = "python"
     /\ SummaryFailed > 0
     /\ \A i \in 1..Len(proc.output) : proc.output[i].k # "failed_line"
     /\ FailedTestNames # {}) =>
        /\ result.failures # <<>>
        /\ \A name \in FailedTestNames :
              \E i \in 1..Len(result.failures) :
                 /\ result.failures[i].test_name = <<name>>
                 /\ result.failures[i].error_message = SeeRawOutput

\* a failure record of a file that failed to load
IsCollectRecord(r) ==
    /\ Len(r.test_name) = 4
    /\ SubSeq(r.test_name, 1, 3) = <<"collect", ":", " ">>
    /\ r.file_path = <<r.test_name[4]>>

CollectRecords ==
    {i \in 1..Len(result.failures) : IsCollectRecord(result.failures[i])}

\* the files of the "ERROR collecting" lines of the output
CollectedFiles ==
    {proc.output[i].file :
        i \in {j \in 1..Len(proc.output) :
                  proc.output[j].k = "collect_line"}}

\* C23: the records of collection errors are keyed "collect: <file>" by
\* the file of an "ERROR collecting" line, no two of them have the same
\* file, there are at most 5, and there are some only when the failures
\* hold no record of a test and the summary counts errors.
C23_CollectionRecords ==
    (ParserReturned /\ ecosystem = "python") =>
        /\ \A i \in CollectRecords :
              result.failures[i].test_name[4] \in CollectedFiles
        /\ \A i, j \in CollectRecords :
              i # j => result.failures[i].file_path
                       # result.failures[j].file_path
        /\ Cardinality(CollectRecords) <= 5
        /\ CollectRecords # {} =>
              /\ CollectRecords = 1..Len(result.failures)
              /\ SummaryErrors > 0

\* six files failed to load, one of them reported twice, and five records
\* were made
C23_Witness ==
    /\ ParserReturned
    /\ ecosystem = "python"
    /\ Cardinality(CollectedFiles) = 6
    /\ Len(proc.output) > 7
    /\ Cardinality(CollectRecords) = 5
    /\ Len(result.failures) = 5

\* the parser of cargo has returned
CargoReturned == ParserReturned /\ ecosystem = "rust"

\* the first panic pattern matches somewhere in the output: on a line of
\* the older format, or from a line of the newer format into a panic line
\* that follows it
FirstShape ==
    \E i \in 1..Len(proc.output) :
       \/ proc.output[i].k = "panicked"
       \/ /\ proc.output[i].k = "panicked_alt"
          /\ i < Len(proc.output)
          /\ IsPanic(proc.output[i + 1])

\* the alternative panic pattern matches somewhere in the output
AltShape ==
    \E i \in 1..(Len(proc.output) - 1) : proc.output[i].k = "panicked_alt"

\* a record as the first panic pattern gives it
IsFirstRecord(r) ==
    /\ r.line_number # NoLineNumber
    /\ \E i \in 1..Len(proc.output) :
          \/ /\ proc.output[i].k = "panicked"
             /\ r.test_name = <<proc.output[i].name>>
             /\ r.error_message = <<proc.output[i].msg>>
             /\ r.file_path = <<proc.output[i].file>>
          \/ /\ proc.output[i].k = "panicked_alt"
             /\ i < Len(proc.output)
             /\ IsPanic(proc.output[i + 1])
             /\ r.test_name = <<proc.output[i].name>>
             /\ r.error_message = AltLocation(proc.output[i])

\* a record as the alternative panic pattern gives it
IsAltRecord(r) ==
    /\ r.line_number # NoLineNumber
    /\ \E i \in 1..(Len(proc.output) - 1) :
          /\ proc.output[i].k = "panicked_alt"
          /\ r.test_name = <<proc.output[i].name>>
          /\ r.file_path = <<proc.output[i].file>>
          /\ r.error_message = CargoLineText(proc.output[i + 1])

\* the names of the "test <name> ... FAILED" lines, in order
FailedLineNames ==
    LET found == SelectSeq(proc.output,
                           LAMBDA line : /\ line.k = "cargo_test"
                                         /\ line.outcome = "FAILED")
    IN  [i \in 1..Len(found) |-> found[i].name]

\* C24: the failures of the cargo parser come from one source only: from
\* the first panic pattern when it matches anywhere; else from the
\* alternative panic pattern when it matches; else, and only when
\* failed_count > 0, one record for each "test <name> ... FAILED" line with
\* empty file_path, no line_number and the message "Test failed (see raw
\* output)".
C24_CargoCascade ==
    CargoReturned =>
        LET fs == result.failures
        IN  /\ FirstShape =>
                  /\ fs # <<>>
                  /\ \A i \in 1..Len(fs) : IsFirstRecord(fs[i])
            /\ (~FirstShape /\ AltShape) =>
                  /\ fs # <<>>
                  /\ \A i \in 1..Len(fs) : IsAltRecord(fs[i])
            /\ (~FirstShape /\ ~AltShape /\ result.failed_count = 0) =>
                  fs = <<>>
            /\ (~FirstShape /\ ~AltShape /\ result.failed_count > 0) =>
                  fs = [i \in 1..Len(FailedLineNames) |->
                          ParsedFailure(<<FailedLineNames[i]>>, <<>>,
                                        NoLineNumber,
                                        <<"Test", " ", "failed", " ", "(",
                                          "see", " ", "raw", " ", "output",
                                          ")">>, <<>>)]

\* an output with a panic of the older format, one of the newer format
\* with its message line, and a FAILED line gave one record, of the first
\* pattern
C24_Witness ==
    /\ CargoReturned
    /\ \E i \in 1..Len(proc.output) : proc.output[i].k = "panicked"
    /\ AltShape
    /\ FailedLineNames # <<>>
    /\ result.failed_count > 0
    /\ Len(result.failures) = 1
    /\ IsFirstRecord(result.failures[1])

\* C30: when some "test result:" line of the cargo output counts failed
\* tests, the parser returns failed_count > 0 and passed false, whatever
\* summary lines come before that line.
C30_AnyFailedSummary ==
    (CargoReturned /\ \E i \in 1..Len(proc.output) :
                         /\ proc.output[i].k = "cargo_summary"
                         /\ int(proc.output[i].failed) > 0) =>
        /\ result.failed_count > 0
        /\ ~result.passed

(***************************************************************************)
(* Properties of rollback.                                                 *)
(***************************************************************************)

\* the calls of rollback in the log
Rollbacks == {i \in 1..Len(calls) : calls[i].op = "rollback"}

CheckoutFailed(call) ==
    \E k \in 1..Len(call.git) :
       call.git[k].cmd = "checkout" /\ ~call.git[k].ok

\* C26: rollback clears the state file if and only if it returns: with no
\* loadable state, with the state of another project, or with a failed
\* checkout it raises RollbackError and the file is as before; a failed
\* branch -D or stash pop does not keep it from returning and clearing.
C26_ClearsIffReturns ==
    \A i \in Rollbacks :
       LET call == calls[i]
       IN  /\ call.outcome = "returned" => call.after = Absent
           /\ call.outcome # "returned" => call.after = call.before
           /\ call.before.kind # "state" => call.outcome = "no_state"
           /\ (/\ call.before.kind = "state"
               /\ resolve(call.path) # resolve(call.before.project_path)) =>
                  call.outcome = "wrong_project"
           /\ CheckoutFailed(call) => call.outcome = "git_failed"
           /\ (/\ call.before.kind = "state"
               /\ resolve(call.path) = resolve(call.before.project_path)
               /\ ~CheckoutFailed(call)) => call.outcome = "returned"

\* a rollback returned and cleared the state although both branch -D and
\* stash pop failed
C26_Witness ==
    \E i \in Rollbacks :
       /\ calls[i].outcome = "returned"
       /\ calls[i].before.kind = "state"
       /\ calls[i].after = Absent
       /\ Len(calls[i].git) = 3
       /\ ~calls[i].git[2].ok
       /\ ~calls[i].git[3].ok

\* C28: after a rollback that returned the state file is absent, and every
\* later rollback, for any path, with no save_state in between raises "No
\* fixforward state found" and runs no git command.
C28_SecondRollbackFails ==
    \A i \in Rollbacks :
       calls[i].outcome = "returned" =>
          /\ calls[i].after = Absent
          /\ \A j \in Rollbacks :
                (/\ i < j
                 /\ \A k \in (i + 1)..(j - 1) : calls[k].op # "save_state") =>
                    /\ calls[j].outcome = "no_state"
                    /\ calls[j].git = <<>>

\* a rollback returned and the next one, for another project, raised
C28_Witness ==
    \E i \in Rollbacks :
       /\ i < Len(calls)
       /\ calls[i].outcome = "returned"
       /\ calls[i + 1].op = "rollback"
       /\ resolve(calls[i + 1].path) # resolve(calls[i].path)
       /\ calls[i + 1].outcome = "no_state"

(***************************************************************************)
(* Properties of the run command.                                          *)
(***************************************************************************)

\* classify has returned in the run command
ClassifyReturned ==
    \E i \in 1..Len(calls) : calls[i].call = "classify"

\* the summary names a value mismatch
MentionsMismatch(summary) ==
    \E i \in 1..Len(summary) :
       summary[i] \in {Whole("Assertion: value mismatch"),
                       Whole("Value mismatch")}

\* C25: a pytest run of test_divide with the summary "1 failed, 4 passed in
\* 0.20s" and the short-summary line "FAILED <file>::test_divide - assert
\* 3 == 3" gives exactly one failure record, for test_divide, and it is
\* classified as assertion with confidence 0.85 and a summary that names a
\* value mismatch, whatever the traceback block of the test holds.
C25_DivideIsAssertion ==
    (/\ ClassifyReturned
     /\ ecosystem = "python"
     /\ result.raw_output \in DivideOutputs) =>
        /\ Len(result.failures) = 1
        /\ result.failures[1].test_name = <<"test_divide">>
        /\ Len(classified) = 1
        /\ classified[1].category = "assertion"
        /\ classified[1].confidence = 85
        /\ MentionsMismatch(classified[1].summary)

\* the places of a call in the log, and of a call that returned a value
Calls(call) == {i \in 1..Len(calls) : calls[i].call = call}

Returned(call, value) == {i \in Calls(call) : calls[i].returned = value}

\* some place of the set lies before place i
Before(places, i) == \E j \in places : j < i

\* C27: in the run command apply_patch is called at most once, and only
\* after the first test run reported not passed, then classify ran, then
\* generate_patch returned a PatchResult, then the user confirmed or
\* --no-confirm was given; verify and generate_report are called only
\* after apply_patch returned.  With passing tests, --dry-run, a
\* CopilotError or a declined confirmation neither apply_patch nor verify
\* is called.
C27_ApplyOnlyAfterConfirm ==
    /\ Cardinality(Calls("apply_patch")) <= 1
    /\ \A i \in Calls("apply_patch") :
          \E t \in Returned("run_tests", "not passed"),
             c \in Calls("classify"),
             g \in Returned("generate_patch", "PatchResult") :
             /\ t < c /\ c < g /\ g < i
             /\ \/ args.no_confirm
                \/ \E a \in Returned("confirm_apply", "True") : g < a /\ a < i
    /\ \A i \in Calls("verify") \cup Calls("generate_report") :
          Before(Returned("apply_patch", "branch_info"), i)
    /\ (\/ Returned("run_tests", "passed") # {}
        \/ args.dry_run
        \/ Returned("generate_patch", "CopilotError") # {}
        \/ Returned("confirm_apply", "False") # {}) =>
          Calls("apply_patch") \cup Calls("verify") = {}

\* the user confirmed, the patch was applied, verified and reported
C27_Witness ==
    /\ pc = "done"
    /\ ~args.no_confirm
    /\ Returned("confirm_apply", "True") # {}
    /\ Returned("apply_patch", "branch_info") # {}
    /\ Calls("verify") # {}
    /\ Calls("generate_report") # {}

\* verify has returned its VerifyResult
VerifyReturned == pc \in {"verified", "done"}

\* C29: in every VerifyResult, all_passing is true exactly when
\* new_failure_count is 0, and when all_passing is true fixed_count is the
\* failed_count of the run before the patch; also when the second run
\* times out or exits non-zero with no failure parsed.
C29_AllPassingIffNoNewFailures ==
    VerifyReturned =>
       /\ verify_result.all_passing <=> verify_result.new_failure_count = 0
       /\ verify_result.all_passing =>
             verify_result.fixed_count = verify_result.original.failed_count

====
